---- MODULE Spec2Model ----
(***************************************************************************)
(* Model of the topicalmd content pipeline (scripts/pipeline):             *)
(*   - the format validator's auto-fix pass (format_validator._auto_fix),  *)
(*   - the editor's score recomputation (editor_agent.run),                *)
(*   - the LLM gateway's routing and retry loop (base_agent.call_llm),     *)
(*   - the orchestrator loop and exit status (runner.run_pipeline, main),  *)
(*   - the format validator's checks and report (format_validator.run),    *)
(*   - the markdown converter (markdown_to_portable_text),                 *)
(*   - the publisher's document build and store (publisher.publish_article),*)
(*   - the publisher's excerpt (publisher._extract_excerpt),               *)
(*   - the research stage's product join (research_agent.run),             *)
(*   - the provider adapters in json_mode (base_agent._call_openai, ...).  *)
(* Each component has its own specification over the shared variables; the *)
(* variables of the other components stay at their idle values.            *)
(***************************************************************************)
EXTENDS Integers, Sequences, FiniteSets, TLC

VARIABLES
    \* format_validator._auto_fix
    markdown,      \* the markdown handed to _auto_fix
    fixPc,         \* "input" | "fixed" | "refixed"
    fixed,         \* result of _auto_fix(markdown)
    fixes,         \* fixes recorded by that pass
    refixed,       \* result of _auto_fix(fixed)
    refixes,       \* fixes recorded by the second pass
    \* editor_agent.run
    data,          \* the parsed JSON object the model returned
    edPc,          \* "called" | "returned" | "raised"
    edit,          \* the EditResult built by run
    \* base_agent.call_llm
    llmPc,         \* "called" | "attempt" | "returned" | "raised"
    modelStr,      \* the requested model string (tokens)
    apiKeys,       \* providers with a configured credential
    maxRetries,    \* max_retries argument
    jsonMode,      \* json_mode argument
    provider,      \* resolved provider
    modelName,     \* resolved model name
    attempt,       \* loop variable of call_llm
    calls,         \* provider calls made: [provider, model, outcome]
    sleeps,        \* seconds slept, in order
    warnings,      \* fallback warnings logged by _resolve_model
    raisedErr,     \* errors raised to the caller
    \* runner.run_pipeline / main
    pc,            \* position of main / run_pipeline: "research", a stage of the
                   \* current item, "log", "summary", "returned", "crashed",
                   \* "exited", "aborted"
    dryRun,        \* --dry-run
    maxArticles,   \* --max-articles
    briefs,        \* number of briefs after truncation
    item,          \* loop index i (1-based)
    ran,           \* per item: stages that ran, in order
    researchRuns,  \* times research_agent.run was called
    validation,    \* per item: "none" | "pass" | "fail" (the report's pass flag)
    edits,         \* per item: the EditResult fields the runner's callees read
    raised,        \* per item: the step that raised, "none" if none did
    stored,        \* per item: "none" | "dry" | "ok" | "failed" (the store mutation)
    results,       \* the results list
    mutations,     \* calls of sanity_client.mutate
    uploads,       \* calls of sanity_client.upload_image
    summaries,     \* times _log_summary ran
    summaryLine,   \* the counts _log_summary logged: [total, published, drafted,
                   \* failed], <<>> before it ran
    exitCode,      \* process exit status, -1 while running
    llmCalls,      \* the <<stage, item>> pairs whose stage called call_llm
    \* format_validator.run
    article,       \* the Article argument: [markdown, word_count]
    outline,       \* the ArticleOutline argument: [sections, total_target_words]
    valPc,         \* "input" | "validated" | "revalidated"
    report,        \* the validation report returned by run
    fixedArticle,  \* the article returned by run
    rereport,      \* the report of run on the returned article
    \* markdown_to_portable_text
    markdown_str,      \* the argument
    convPc,            \* "called" | "loop" | "returned"
    lineIdx,           \* 1-based index of the line the loop is at
    blocks,            \* the blocks list
    paragraph_buffer,  \* accumulated paragraph lines
    table_buffer,      \* accumulated table lines
    \* publisher.publish_article
    pubPc,         \* "called" | "published" | "republished"
    pubBrief,      \* the brief: [content_type, asin]
    pubOutline,    \* the outline: [slug]
    pubEdit,       \* the edit: [confidence_score]
    pubDryRun,     \* dry_run
    pubDoc,        \* the documents built, in order
    pubResult,     \* the summary dicts returned, in order
    pubStore,      \* calls made to the content store, in order
    \* publisher._extract_excerpt
    final_markdown,  \* the markdown argument
    excPc,           \* "called" | "returned"
    excerpt,         \* the string returned
    \* research_agent.run, from the model's reply to the briefs returned
    products,      \* the catalog: _load_affiliate_products()
    raw_briefs,    \* result["content"].get("briefs", [])
    resPc,         \* "replied" | "returned" | "raised"
    resBriefs,     \* the briefs list returned
    \* base_agent._call_openai / _call_anthropic / _call_google
    adProvider,    \* the adapter called
    adJsonMode,    \* json_mode
    adRaw,         \* the text of the provider's response
    adPc,          \* "called" | "returned" | "raised"
    adContent      \* the "content" value returned, <<>> if the adapter raised

fixVars  == <<markdown, fixPc, fixed, fixes, refixed, refixes>>
edVars   == <<data, edPc, edit>>
llmVars  == <<llmPc, modelStr, apiKeys, maxRetries, jsonMode, provider, modelName,
              attempt, calls, sleeps, warnings, raisedErr>>
pipeVars == <<pc, dryRun, maxArticles, briefs, item, ran, researchRuns,
              validation, edits, raised, stored, results, mutations, uploads,
              summaries, summaryLine, exitCode, llmCalls>>
valVars  == <<article, outline, valPc, report, fixedArticle, rereport>>
convVars == <<markdown_str, convPc, lineIdx, blocks, paragraph_buffer,
              table_buffer>>
pubVars  == <<pubPc, pubBrief, pubOutline, pubEdit, pubDryRun, pubDoc, pubResult,
              pubStore>>
excVars  == <<final_markdown, excPc, excerpt>>
resVars  == <<products, raw_briefs, resPc, resBriefs>>
adVars   == <<adProvider, adJsonMode, adRaw, adPc, adContent>>
vars     == <<fixVars, edVars, llmVars, pipeVars, valVars, convVars, pubVars,
              excVars, resVars, adVars>>

----------------------------------------------------------------------------
(* Bounds of the model *)

MaxLen == 6          \* longest markdown string explored
MaxModelLen == 3     \* longest model string explored, in tokens
MaxRetriesArg == 2   \* largest max_retries argument explored
MaxBriefs == 3       \* most briefs the research agent returns
MaxArticles == 2     \* largest --max-articles explored
MaxDocLines == 3     \* most lines of an article explored
MaxRows == 4         \* most lines of an article with tables explored
MaxSections == 1     \* most outline sections explored
MaxWords == 20       \* largest word count and word target explored
MaxScoreDelta == 1   \* largest distance of a published score from the threshold
MaxOver == 3         \* largest distance of a paragraph's length from max_len
MaxListed == 2       \* most names a brief of the reply lists
MaxRaw == 2          \* most briefs in the model's reply

----------------------------------------------------------------------------
(* Strings are sequences of characters *)

NL == "\n"
Chars == {"#", " ", NL, "a"}

StringsUpTo(n) == UNION {[1..k -> Chars] : k \in 0..n}

\* regex \s restricted to Chars; also what str.strip() removes
IsSpace(c) == c \in {" ", NL}

RECURSIVE RStrip(_)
RStrip(s) ==
    IF s = <<>> THEN s
    ELSE IF IsSpace(s[Len(s)]) THEN RStrip(SubSeq(s, 1, Len(s) - 1))
    ELSE s

RECURSIVE LStrip(_)
LStrip(s) ==
    IF s = <<>> THEN s
    ELSE IF IsSpace(s[1]) THEN LStrip(Tail(s))
    ELSE s

Strip(s) == LStrip(RStrip(s))

HasNewline(s) == \E i \in 1..Len(s) : s[i] = NL

\* number of consecutive '#' starting at position i
RECURSIVE HashRun(_, _)
HashRun(s, i) ==
    IF i <= Len(s) /\ s[i] = "#" THEN 1 + HashRun(s, i + 1) ELSE 0

\* number of consecutive regex-\s characters starting at position i
RECURSIVE SpaceRun(_, _)
SpaceRun(s, i) ==
    IF i <= Len(s) /\ IsSpace(s[i]) THEN 1 + SpaceRun(s, i + 1) ELSE 0

\* number of consecutive newlines starting at position i
RECURSIVE NewlineRun(_, _)
NewlineRun(s, i) ==
    IF i <= Len(s) /\ s[i] = NL THEN 1 + NewlineRun(s, i + 1) ELSE 0

----------------------------------------------------------------------------
(* format_validator._auto_fix *)

\* r"\n(#{1,4}\s+[^\n]*)\s*$" matches starting at position i: a newline, one to
\* four '#', at least one \s, then (after any further \s, which may be
\* newlines) text with no newline, then only \s up to the end.
TrailingHeadingAt(s, i) ==
    /\ s[i] = NL
    /\ LET h == HashRun(s, i + 1)
           j == i + 1 + h
       IN  /\ h \in 1..4
           /\ j <= Len(s)
           /\ IsSpace(s[j])
           /\ ~HasNewline(Strip(SubSeq(s, j, Len(s))))

\* re.search: the leftmost match start, 0 when there is none
TrailingHeadingStart(s) ==
    IF \E i \in 1..Len(s) : TrailingHeadingAt(s, i)
    THEN CHOOSE i \in 1..Len(s) :
            /\ TrailingHeadingAt(s, i)
            /\ \A k \in 1..(i - 1) : ~TrailingHeadingAt(s, k)
    ELSE 0

\* Fix 1: fixed[:start].rstrip() + "\n"; the text after the match is always
\* empty once stripped, so the fix applies whenever the pattern matches.
RemoveTrailingHeading(s) ==
    LET i == TrailingHeadingStart(s)
    IN  IF i = 0 THEN s ELSE RStrip(SubSeq(s, 1, i - 1)) \o <<NL>>

\* group(1).strip() of that match
TrailingHeadingText(s) ==
    LET i == TrailingHeadingStart(s)
    IN  IF i = 0 THEN <<>> ELSE Strip(SubSeq(s, i + 1, Len(s)))

\* Fix 2: re.sub(r"\n{3,}", "\n\n", s)
RECURSIVE CollapseBlankLines(_)
CollapseBlankLines(s) ==
    IF s = <<>> THEN <<>>
    ELSE IF s[1] = NL
         THEN LET r == NewlineRun(s, 1)
              IN  (IF r >= 3 THEN <<NL, NL>> ELSE SubSeq(s, 1, r))
                  \o CollapseBlankLines(SubSeq(s, r + 1, Len(s)))
         ELSE <<s[1]>> \o CollapseBlankLines(Tail(s))

\* Fix 3: re.sub(r"([^\n])\n(#{1,4}\s+)", r"\1\n\n\2", s), scanning from p;
\* a match consumes the whole \s+ run and the scan resumes after it.
RECURSIVE HeadingSpacingFrom(_, _)
HeadingSpacingFrom(s, p) ==
    IF p > Len(s) THEN <<>>
    ELSE LET h == HashRun(s, p + 2)
             j == p + 2 + h
             hit == /\ s[p] # NL
                    /\ p + 1 <= Len(s)
                    /\ s[p + 1] = NL
                    /\ h \in 1..4
                    /\ j <= Len(s)
                    /\ IsSpace(s[j])
         IN  IF hit
             THEN LET e == j + SpaceRun(s, j) - 1
                  IN  <<s[p], NL, NL>> \o SubSeq(s, p + 2, e)
                      \o HeadingSpacingFrom(s, e + 1)
             ELSE <<s[p]>> \o HeadingSpacingFrom(s, p + 1)

FixHeadingSpacing(s) == HeadingSpacingFrom(s, 1)

\* _auto_fix(markdown, issues) -> (fixed, fixes); the issues are not read
AutoFix(s) ==
    LET f1 == RemoveTrailingHeading(s)
        f2 == CollapseBlankLines(f1)
        f3 == FixHeadingSpacing(f2)
        m1 == IF TrailingHeadingStart(s) # 0
              THEN <<<<"Removed trailing empty heading", TrailingHeadingText(s)>>>>
              ELSE <<>>
        m2 == IF f2 # f1 THEN <<<<"Collapsed excessive blank lines">>>> ELSE <<>>
        m3 == IF f3 # f2 THEN <<<<"Added missing blank lines before headings">>>> ELSE <<>>
    IN  [fixed |-> f3, fixes |-> m1 \o m2 \o m3]

----------------------------------------------------------------------------
(* Idle values: what a component's variables hold while another component's *)
(* specification runs                                                       *)

IdleFix ==
    /\ markdown = <<>> /\ fixPc = "idle" /\ fixed = <<>> /\ fixes = <<>>
    /\ refixed = <<>> /\ refixes = <<>>

IdleEd == data = <<>> /\ edPc = "idle" /\ edit = <<>>

IdleLlm ==
    /\ llmPc = "off" /\ modelStr = <<>> /\ apiKeys = {} /\ maxRetries = 0
    /\ jsonMode = FALSE /\ provider = <<>> /\ modelName = <<>> /\ attempt = 0
    /\ calls = <<>> /\ sleeps = <<>> /\ warnings = <<>> /\ raisedErr = <<>>

IdlePipe ==
    /\ pc = "off" /\ dryRun = FALSE /\ maxArticles = 0 /\ briefs = 0 /\ item = 0
    /\ ran = <<>> /\ researchRuns = 0 /\ validation = <<>> /\ edits = <<>>
    /\ raised = <<>> /\ stored = <<>> /\ results = <<>> /\ mutations = 0
    /\ uploads = 0 /\ summaries = 0 /\ summaryLine = <<>> /\ exitCode = -1
    /\ llmCalls = {}

IdleVal ==
    /\ article = <<>> /\ outline = <<>> /\ valPc = "idle" /\ report = <<>>
    /\ fixedArticle = <<>> /\ rereport = <<>>

IdleConv ==
    /\ markdown_str = <<>> /\ convPc = "idle" /\ lineIdx = 0 /\ blocks = <<>>
    /\ paragraph_buffer = <<>> /\ table_buffer = <<>>

IdlePub ==
    /\ pubPc = "idle" /\ pubBrief = <<>> /\ pubOutline = <<>> /\ pubEdit = <<>>
    /\ pubDryRun = FALSE /\ pubDoc = <<>> /\ pubResult = <<>> /\ pubStore = <<>>

IdleExc == final_markdown = <<>> /\ excPc = "idle" /\ excerpt = <<>>

IdleRes ==
    products = <<>> /\ raw_briefs = <<>> /\ resPc = "idle" /\ resBriefs = <<>>

IdleAd ==
    /\ adProvider = "none" /\ adJsonMode = FALSE /\ adRaw = <<>> /\ adPc = "idle"
    /\ adContent = <<>>

\* the components added to every initial predicate that leaves them idle
IdleOthers == IdleExc /\ IdleRes /\ IdleAd

----------------------------------------------------------------------------
(* Specification of the auto-fix pass: _auto_fix on a markdown string, then *)
(* _auto_fix again on its own output                                        *)

InitFix ==
    /\ markdown \in StringsUpTo(MaxLen)
    /\ fixPc = "input"
    /\ fixed = <<>> /\ fixes = <<>> /\ refixed = <<>> /\ refixes = <<>>
    /\ IdleEd /\ IdleLlm /\ IdlePipe /\ IdleVal /\ IdleConv /\ IdlePub /\ IdleOthers

\* fixed_markdown, fixes_applied = _auto_fix(markdown, all_issues)
ApplyAutoFix ==
    /\ fixPc = "input"
    /\ fixed' = AutoFix(markdown).fixed
    /\ fixes' = AutoFix(markdown).fixes
    /\ fixPc' = "fixed"
    /\ UNCHANGED <<markdown, refixed, refixes, edVars, llmVars, pipeVars,
                   valVars, convVars, pubVars,
                   excVars, resVars, adVars>>

\* _auto_fix run on the output of the first pass
ReapplyAutoFix ==
    /\ fixPc = "fixed"
    /\ refixed' = AutoFix(fixed).fixed
    /\ refixes' = AutoFix(fixed).fixes
    /\ fixPc' = "refixed"
    /\ UNCHANGED <<markdown, fixed, fixes, edVars, llmVars, pipeVars,
                   valVars, convVars, pubVars,
                   excVars, resVars, adVars>>

NextFix == ApplyAutoFix \/ ReapplyAutoFix

SpecFix == InitFix /\ [][NextFix]_vars

----------------------------------------------------------------------------
(* Lines of a markdown string, for statements about content *)

\* index of the first newline at or after position i, Len(s) + 1 if none
RECURSIVE NextNewline(_, _)
NextNewline(s, i) ==
    IF i > Len(s) \/ s[i] = NL THEN i ELSE NextNewline(s, i + 1)

\* s.split("\n") from position i on
RECURSIVE LinesFrom(_, _)
LinesFrom(s, i) ==
    LET e == NextNewline(s, i)
    IN  IF e > Len(s) THEN <<SubSeq(s, i, Len(s))>>
        ELSE <<SubSeq(s, i, e - 1)>> \o LinesFrom(s, e + 1)

Lines(s) == LinesFrom(s, 1)

\* the stripped non-blank lines, in order
RECURSIVE DropBlank(_)
DropBlank(ls) ==
    IF ls = <<>> THEN <<>>
    ELSE IF Strip(ls[1]) = <<>> THEN DropBlank(Tail(ls))
    ELSE <<Strip(ls[1])>> \o DropBlank(Tail(ls))

NonBlankLines(s) == DropBlank(Lines(s))

\* a stripped line that is a heading: one to four '#', then \s and the
\* heading's text; a line of one to four '#' alone (a heading with no text,
\* its \s stripped) is counted as a heading too
IsHeadingLine(l) ==
    LET h == HashRun(l, 1)
    IN  h \in 1..4 /\ (h = Len(l) \/ IsSpace(l[h + 1]))

\* a is a subsequence of b (same relative order)
RECURSIVE IsSubseq(_, _)
IsSubseq(a, b) ==
    IF a = <<>> THEN TRUE
    ELSE IF b = <<>> THEN FALSE
    ELSE IF a[1] = b[1] THEN IsSubseq(Tail(a), Tail(b))
    ELSE IsSubseq(a, Tail(b))

\* the content lines _auto_fix has to keep: every non-blank line, except a
\* last non-blank line that is a heading
MustKeep(s) ==
    LET ls == NonBlankLines(s)
    IN  IF ls # <<>> /\ IsHeadingLine(ls[Len(ls)])
        THEN SubSeq(ls, 1, Len(ls) - 1)
        ELSE ls

----------------------------------------------------------------------------
(* Claims about the auto-fix pass *)

\* C1: _auto_fix is idempotent: run on its own output it returns that output
\* unchanged and records no further fix.
C1_AutoFixIdempotent ==
    fixPc = "refixed" => (refixed = fixed /\ refixes = <<>>)

\* C2: _auto_fix never discards content: every non-blank line of the input,
\* other than one trailing heading line with nothing after it, appears in the
\* output, in the same relative order.
C2_AutoFixKeepsContent ==
    fixPc \in {"fixed", "refixed"} => IsSubseq(MustKeep(markdown), NonBlankLines(fixed))

----------------------------------------------------------------------------
(* editor_agent.run: the EditResult built from the model's JSON reply *)

PUBLISH_THRESHOLD == 80

Axes == {"medical_accuracy", "structure_compliance", "eeat_signals",
         "readability", "seo_optimization"}

\* a Python dict is a function whose domain is its set of keys
EmptyDict == [k \in {} |-> 0]

\* dict.get(key, default)
Get(d, key, default) == IF key \in DOMAIN d THEN d[key] ELSE default

\* axis values the model may return (25 is outside the 0..20 it was asked for)
AxisVals == {15, 16, 25}
\* totals the model may state
StatedScores == {79, 80}
\* decisions the model may state
StatedDecisions == {"publish", "draft"}

\* score_breakdown objects: any subset of the five axes may be missing
Breakdowns == UNION {[D -> AxisVals] : D \in SUBSET Axes}

\* the replies: each of the three keys may be absent
Replies ==
    {b @@ c @@ d :
        b \in {EmptyDict} \cup {[score_breakdown |-> x] : x \in Breakdowns},
        c \in {EmptyDict} \cup {[confidence_score |-> x] : x \in StatedScores},
        d \in {EmptyDict} \cup {[publish_decision |-> x] : x \in StatedDecisions}}

\* sum(breakdown.get(k, 0) for k in [the five axes])
RECURSIVE SumOver(_, _)
SumOver(bd, ks) ==
    IF ks = {} THEN 0
    ELSE LET k == CHOOSE x \in ks : TRUE
         IN  Get(bd, k, 0) + SumOver(bd, ks \ {k})

CalcScore(bd) == SumOver(bd, Axes)

\* the model's total, trusted as stated (what run would return without its
\* sanity check)
StatedScore(d) == Get(d, "confidence_score", 0)

\* score after the sanity check: the stated total, replaced by the calculated
\* one when they differ
EditorScore(d) ==
    LET breakdown == Get(d, "score_breakdown", EmptyDict)
        score == Get(d, "confidence_score", 0)
        calc_score == CalcScore(breakdown)
    IN  IF calc_score # score THEN calc_score ELSE score

\* the threshold test with a strict comparison
DecisionStrict(score) == IF score > PUBLISH_THRESHOLD THEN "publish" ELSE "draft"

\* "publish" if score >= PUBLISH_THRESHOLD else "draft"
Decision(score) == IF score >= PUBLISH_THRESHOLD THEN "publish" ELSE "draft"

\* EditResult(...): the fields taken from the scores; final_markdown,
\* issues_found, corrections_made and tokens_used are copied through
MakeEditResult(d) ==
    [confidence_score |-> EditorScore(d),
     publish_decision |-> Decision(EditorScore(d)),
     score_breakdown  |-> Get(d, "score_breakdown", EmptyDict)]

InitEd ==
    /\ data \in Replies
    /\ edPc = "called"
    /\ edit = <<>>
    /\ IdleFix /\ IdleLlm /\ IdlePipe /\ IdleVal /\ IdleConv /\ IdlePub /\ IdleOthers

\* call_llm returned data; run builds and returns the EditResult
EditorReturn ==
    /\ edPc = "called"
    /\ edit' = MakeEditResult(data)
    /\ edPc' = "returned"
    /\ UNCHANGED <<data, fixVars, llmVars, pipeVars,
                   valVars, convVars, pubVars,
                   excVars, resVars, adVars>>

\* call_llm raised: run propagates the error and builds no EditResult
EditorRaise ==
    /\ edPc = "called"
    /\ edPc' = "raised"
    /\ UNCHANGED <<data, edit, fixVars, llmVars, pipeVars,
                   valVars, convVars, pubVars,
                   excVars, resVars, adVars>>

NextEd == EditorReturn \/ EditorRaise

SpecEd == InitEd /\ [][NextEd]_vars

\* the sum of the five axes of a breakdown, a missing axis counting 0,
\* written out axis by axis
AxisSum(bd) ==
    Get(bd, "medical_accuracy", 0) + Get(bd, "structure_compliance", 0)
    + Get(bd, "eeat_signals", 0) + Get(bd, "readability", 0)
    + Get(bd, "seo_optimization", 0)

\* C3: the EditResult's confidence_score is the sum of the five axes of its
\* score_breakdown (a missing axis counts 0), whatever total the model stated.
C3_ScoreIsAxisSum ==
    edPc = "returned" => edit.confidence_score = AxisSum(edit.score_breakdown)

\* C3 witness: an EditResult built from a reply whose stated total differs
\* from the sum of its axes and that lacks an axis.
C3_Witness ==
    /\ edPc = "returned"
    /\ "confidence_score" \in DOMAIN data
    /\ "score_breakdown" \in DOMAIN data
    /\ DOMAIN data.score_breakdown # Axes
    /\ DOMAIN data.score_breakdown # {}
    /\ data.confidence_score # AxisSum(data.score_breakdown)

\* C4: publish_decision is "publish" exactly when the recomputed
\* confidence_score is at least PUBLISH_THRESHOLD, and "draft" otherwise,
\* whatever decision the model stated.
C4_DecisionIffThreshold ==
    edPc = "returned" =>
        /\ edit.publish_decision \in {"publish", "draft"}
        /\ edit.publish_decision = "publish"
               <=> AxisSum(edit.score_breakdown) >= PUBLISH_THRESHOLD

\* C4 witness: the score is exactly the threshold, the model said "draft",
\* and the result says "publish".
C4_Witness ==
    /\ edPc = "returned"
    /\ edit.confidence_score = PUBLISH_THRESHOLD
    /\ Get(data, "publish_decision", "absent") = "draft"
    /\ edit.publish_decision = "publish"

----------------------------------------------------------------------------
(* base_agent: model-string routing and the retry loop of call_llm *)

\* A model string is a sequence of tokens: provider names as written (one of
\* them capitalised), the separator "/", and a model name.
Tokens == {"openai", "Anthropic", "google", "/", "m"}

ModelStrings == UNION {[1..k -> Tokens] : k \in 0..MaxModelLen}

\* model=None, the argument's default
NoModel == <<"None">>

\* config.OPENAI_MODEL (default "gpt-4o")
OPENAI_MODEL == <<"gpt-4o">>

Providers == {"openai", "anthropic", "google"}

\* str.lower() of one token
LowerTok(t) == IF t = "Anthropic" THEN "anthropic" ELSE t

Lower(s) == [i \in 1..Len(s) |-> LowerTok(s[i])]

\* position of the first "/" at or after i, 0 when there is none
RECURSIVE FirstSlash(_, _)
FirstSlash(s, i) ==
    IF i > Len(s) THEN 0
    ELSE IF s[i] = "/" THEN i
    ELSE FirstSlash(s, i + 1)

\* _parse_provider_model: split on the first "/", lower-case the provider;
\* no "/" means provider openai and the whole string as model name
ParseProviderModel(ms) ==
    LET k == FirstSlash(ms, 1)
    IN  IF k # 0
        THEN [provider |-> Lower(SubSeq(ms, 1, k - 1)),
              model    |-> SubSeq(ms, k + 1, Len(ms))]
        ELSE [provider |-> <<"openai">>, model |-> ms]

\* a lookup whose default is True: .get(provider, True)
HasKeyUnlessKnown(p, keys) ==
    ~(Len(p) = 1 /\ p[1] \in Providers) \/ (Len(p) = 1 /\ p[1] \in keys)

\* _has_key_for_provider: the API key of a known provider is non-empty
HasKeyForProvider(p, keys) ==
    Len(p) = 1 /\ p[1] \in Providers /\ p[1] \in keys

\* _resolve_model with the fallback keeping the requested model name
ResolveKeepName(ms, keys) ==
    LET pm == ParseProviderModel(ms)
    IN  IF HasKeyForProvider(pm.provider, keys)
        THEN [provider |-> pm.provider, model |-> pm.model, warned |-> FALSE]
        ELSE [provider |-> <<"openai">>, model |-> pm.model, warned |-> TRUE]

\* _resolve_model: the parsed pair when its provider has a key, otherwise
\* ("openai", OPENAI_MODEL) after a warning
ResolveModel(ms, keys) ==
    LET pm == ParseProviderModel(ms)
    IN  IF HasKeyForProvider(pm.provider, keys)
        THEN [provider |-> pm.provider, model |-> pm.model, warned |-> FALSE]
        ELSE [provider |-> <<"openai">>, model |-> OPENAI_MODEL, warned |-> TRUE]

\* _PROVIDER_DISPATCH.get(provider) is not None
Dispatchable(p) == Len(p) = 1 /\ p[1] \in Providers

\* the loop with one attempt too many
LastAttemptOffByOne(retries) == retries + 2

\* range(1, max_retries + 2): the last value of attempt
LastAttempt(retries) == retries + 1

\* a wait that grows by one second with each attempt
LinearBackoff(n) == n + 1

\* 2 ** n
RECURSIVE Pow2(_)
Pow2(n) == IF n = 0 THEN 1 ELSE 2 * Pow2(n - 1)

\* What a provider call can do: return a result, fail to parse as JSON (only
\* in json_mode), or raise another exception. A provider with no credential
\* cannot answer: its client raises on every call.
Outcomes(p, keys, json) ==
    IF HasKeyForProvider(p, keys)
    THEN {"ok", "error"} \cup (IF json THEN {"json_error"} ELSE {})
    ELSE {"error"}

InitLlm ==
    /\ llmPc = "called"
    /\ modelStr \in ModelStrings \cup {NoModel}
    /\ apiKeys \in SUBSET Providers
    /\ maxRetries \in 0..MaxRetriesArg
    /\ jsonMode \in BOOLEAN
    /\ provider = <<>> /\ modelName = <<>> /\ attempt = 0
    /\ calls = <<>> /\ sleeps = <<>> /\ warnings = <<>> /\ raisedErr = <<>>
    /\ IdleFix /\ IdleEd /\ IdlePipe /\ IdleVal /\ IdleConv /\ IdlePub /\ IdleOthers

\* call_llm up to the loop: default model, _resolve_model, dispatch lookup
Resolve ==
    /\ llmPc = "called"
    /\ LET model == IF modelStr = NoModel
                    THEN <<"openai", "/">> \o OPENAI_MODEL
                    ELSE modelStr
           r == ResolveModel(model, apiKeys)
       IN  /\ provider' = r.provider
           /\ modelName' = r.model
           /\ warnings' = IF r.warned
                          THEN Append(warnings, ParseProviderModel(model).provider)
                          ELSE warnings
           /\ IF Dispatchable(r.provider)
              THEN /\ llmPc' = "attempt"
                   /\ attempt' = 1
                   /\ raisedErr' = raisedErr
              ELSE /\ llmPc' = "raised"
                   /\ attempt' = attempt
                   /\ raisedErr' = Append(raisedErr,
                          [kind |-> "unknown_provider", provider |-> r.provider,
                           model |-> r.model, attempts |-> 0])
    /\ UNCHANGED <<modelStr, apiKeys, maxRetries, jsonMode, calls, sleeps,
                   fixVars, edVars, pipeVars,
                   valVars, convVars, pubVars,
                   excVars, resVars, adVars>>

\* one iteration of the loop: the provider call, then return, or log the
\* failure and sleep 2 ** attempt when attempt <= max_retries; after the
\* last iteration the RuntimeError
Attempt ==
    /\ llmPc = "attempt"
    /\ \E o \in Outcomes(provider, apiKeys, jsonMode) :
        /\ calls' = Append(calls, [provider |-> provider, model |-> modelName,
                                   outcome |-> o])
        /\ IF o = "ok"
           THEN /\ llmPc' = "returned"
                /\ UNCHANGED <<attempt, sleeps, raisedErr>>
           ELSE /\ sleeps' = IF attempt <= maxRetries
                             THEN Append(sleeps, Pow2(attempt))
                             ELSE sleeps
                /\ IF attempt < LastAttempt(maxRetries)
                   THEN /\ attempt' = attempt + 1
                        /\ llmPc' = "attempt"
                        /\ raisedErr' = raisedErr
                   ELSE /\ attempt' = attempt
                        /\ llmPc' = "raised"
                        /\ raisedErr' = Append(raisedErr,
                               [kind |-> "failed_after", provider |-> provider,
                                model |-> modelName, attempts |-> maxRetries + 1])
    /\ UNCHANGED <<modelStr, apiKeys, maxRetries, jsonMode, provider, modelName,
                   warnings, fixVars, edVars, pipeVars,
                   valVars, convVars, pubVars,
                   excVars, resVars, adVars>>

NextLlm == Resolve \/ Attempt

SpecLlm == InitLlm /\ [][NextLlm]_vars

\* the model string call_llm resolves: the argument, or the default
Requested == IF modelStr = NoModel THEN <<"openai", "/">> \o OPENAI_MODEL ELSE modelStr

AllFailed(cs) == \A k \in 1..Len(cs) : cs[k].outcome # "ok"

\* C5: call_llm makes at most max_retries + 1 provider attempts; it retries
\* after any failed attempt (a JSON parse failure included) while attempts
\* remain, returns at the first successful attempt without attempting again,
\* and raises exactly one RuntimeError, naming provider, model and attempt
\* count, only after all max_retries + 1 attempts have failed.
C5_RetryBound ==
    /\ Len(calls) <= maxRetries + 1
    /\ \A k \in 1..(Len(calls) - 1) : calls[k].outcome # "ok"
    /\ (llmPc = "returned") <=> (calls # <<>> /\ calls[Len(calls)].outcome = "ok")
    /\ (calls # <<>> /\ AllFailed(calls) /\ Len(calls) <= maxRetries)
           => llmPc = "attempt"
    /\ Len(raisedErr) <= 1
    /\ (llmPc = "raised") <=> (raisedErr # <<>>)
    /\ raisedErr # <<>> =>
           /\ Len(calls) = maxRetries + 1
           /\ AllFailed(calls)
           /\ raisedErr[1].attempts = Len(calls)
           /\ \A k \in 1..Len(calls) :
                  /\ calls[k].provider = raisedErr[1].provider
                  /\ calls[k].model = raisedErr[1].model

\* C5 witness: a call with max_retries = 2 that raised after three failed
\* attempts, one of them a JSON parse failure.
C5_Witness ==
    /\ llmPc = "raised"
    /\ maxRetries = 2
    /\ Len(calls) = 3
    /\ \E k \in 1..Len(calls) : calls[k].outcome = "json_error"

----------------------------------------------------------------------------
(* runner.run_pipeline and runner.main *)

StageOrder == <<"outline", "writer", "validator", "editor", "publisher">>
Stages == {StageOrder[k] : k \in 1..Len(StageOrder)}

Items == 1..MaxBriefs

\* scores the editor may return for an item: just below and at the threshold
EditorScores == {PUBLISH_THRESHOLD - 1, PUBLISH_THRESHOLD}

\* shapes of the issues_found value the editor copies from the model's JSON
\* reply: an array (possibly empty) or a non-empty JSON object
IssuesShapes == {"list", "object"}

NoEdit == [score |-> -1, issues |-> "none"]

Min(a, b) == IF a <= b THEN a ELSE b

\* a runner in which a failed validation report aborts the item
NextStageGated(stage, passed) ==
    CASE stage = "outline"   -> "writer"
      [] stage = "writer"    -> "validator"
      [] stage = "validator" -> IF passed THEN "editor" ELSE "skipped"
      [] stage = "editor"    -> "publisher"
      [] stage = "publisher" -> "log"

\* the statement that follows a stage that returned, in the try block of
\* run_pipeline; the validation report's pass flag is not read
NextStage(stage, passed) ==
    CASE stage = "outline"   -> "writer"
      [] stage = "writer"    -> "validator"
      [] stage = "validator" -> "editor"
      [] stage = "editor"    -> "publisher"
      [] stage = "publisher" -> "log"

\* publisher.publish_article: decision
PublishDecision(score) == IF score >= PUBLISH_THRESHOLD THEN "publish" ELSE "draft"

\* a publish_article that sends the document whatever dry_run says
CallsMutateAlways(dry_run) == TRUE

\* publish_article calls mutate(mutations) unless dry_run, which returns
\* before it
CallsMutate(dry_run) == ~dry_run

\* acquire_image calls upload_image when it found image bytes, unless dry_run
UploadsImage(image, dry_run) == image # "none" /\ ~dry_run

\* an exit status that reports any failed result
ExitCodeAnyFailed(rs) ==
    IF rs # <<>> /\ \E k \in 1..Len(rs) : ~rs[k].success THEN 1 ELSE 0

\* main: sys.exit(1) if results and all(not r.get("success")), else status 0
ExitCode(rs) ==
    IF rs # <<>> /\ \A k \in 1..Len(rs) : ~rs[k].success THEN 1 ELSE 0

InitPipe ==
    /\ pc = "research"
    /\ dryRun \in BOOLEAN
    /\ maxArticles \in 0..MaxArticles
    /\ briefs = 0 /\ item = 0
    /\ ran = [i \in Items |-> <<>>]
    /\ researchRuns = 0
    /\ validation = [i \in Items |-> "none"]
    /\ edits = [i \in Items |-> NoEdit]
    /\ raised = [i \in Items |-> "none"]
    /\ stored = [i \in Items |-> "none"]
    /\ results = <<>> /\ mutations = 0 /\ uploads = 0 /\ summaries = 0
    /\ summaryLine = <<>>
    /\ exitCode = -1
    /\ llmCalls = {}
    /\ IdleFix /\ IdleEd /\ IdleLlm /\ IdleVal /\ IdleConv /\ IdlePub /\ IdleOthers

\* the end of one iteration of the loop over briefs
GoNextItem ==
    IF item < briefs
    THEN item' = item + 1 /\ pc' = "outline"
    ELSE item' = item /\ pc' = "summary"

\* the except clause of the loop body: record the failed result, go on
Fail(step) ==
    /\ raised' = [raised EXCEPT ![item] = step]
    /\ results' = Append(results,
                     [item |-> item, success |-> FALSE, decision |-> "none"])
    /\ GoNextItem

\* an LLM stage calls call_llm once, whatever dry_run is, and returns only
\* after the call returned; a stage that raises did so before the call, in
\* it or after it
LlmCalled(stage, returned) ==
    \E called \in BOOLEAN :
        /\ returned => called
        /\ llmCalls' = IF called THEN llmCalls \cup {<<stage, item>>} ELSE llmCalls

\* Stage 1: research_agent.run, outside any try block. It raises (the
\* error leaves run_pipeline), or returns n briefs: none ends run_pipeline
\* at once, otherwise briefs[:max_articles] are looped over.
Research ==
    /\ pc = "research"
    /\ researchRuns' = researchRuns + 1
    /\ \/ /\ pc' = "crashed"
          /\ LlmCalled("research", FALSE)
          /\ UNCHANGED <<briefs, item>>
       \/ \E n \in 0..MaxBriefs :
            /\ LlmCalled("research", TRUE)
            /\ IF n = 0
               THEN pc' = "returned" /\ UNCHANGED <<briefs, item>>
               ELSE /\ briefs' = Min(n, maxArticles)
                    /\ IF briefs' >= 1
                       THEN item' = 1 /\ pc' = "outline"
                       ELSE item' = item /\ pc' = "summary"
    /\ UNCHANGED <<summaryLine, dryRun, maxArticles, ran, validation, edits, raised, stored,
                   results, mutations, uploads, summaries, exitCode,
                   fixVars, edVars, llmVars,
                   valVars, convVars, pubVars,
                   excVars, resVars, adVars>>

\* Stage 2: outline_agent.run(brief)
Outline ==
    /\ pc = "outline"
    /\ ran' = [ran EXCEPT ![item] = Append(@, "outline")]
    /\ \/ /\ pc' = NextStage("outline", TRUE)
          /\ LlmCalled("outline", TRUE)
          /\ UNCHANGED <<item, raised, results>>
       \/ Fail("outline") /\ LlmCalled("outline", FALSE)
    /\ UNCHANGED <<summaryLine, dryRun, maxArticles, briefs, researchRuns, validation, edits,
                   stored, mutations, uploads, summaries, exitCode,
                   fixVars, edVars, llmVars,
                   valVars, convVars, pubVars,
                   excVars, resVars, adVars>>

\* Stage 3: writer_agent.run(brief, outline)
Writer ==
    /\ pc = "writer"
    /\ ran' = [ran EXCEPT ![item] = Append(@, "writer")]
    /\ \/ /\ pc' = NextStage("writer", TRUE)
          /\ LlmCalled("writer", TRUE)
          /\ UNCHANGED <<item, raised, results>>
       \/ Fail("writer") /\ LlmCalled("writer", FALSE)
    /\ UNCHANGED <<summaryLine, dryRun, maxArticles, briefs, researchRuns, validation, edits,
                   stored, mutations, uploads, summaries, exitCode,
                   fixVars, edVars, llmVars,
                   valVars, convVars, pubVars,
                   excVars, resVars, adVars>>

\* Stage 3.5: format_validator.run(article, outline) returns a report whose
\* pass flag is true or false, or raises
Validator ==
    /\ pc = "validator"
    /\ ran' = [ran EXCEPT ![item] = Append(@, "validator")]
    /\ \/ \E passed \in BOOLEAN :
            /\ validation' = [validation EXCEPT
                                 ![item] = IF passed THEN "pass" ELSE "fail"]
            /\ pc' = NextStage("validator", passed)
            /\ UNCHANGED <<item, raised, results>>
       \/ Fail("validator") /\ UNCHANGED validation
    /\ UNCHANGED <<summaryLine, dryRun, maxArticles, briefs, researchRuns, edits,
                   stored, mutations, uploads, summaries, exitCode,
                   llmCalls, fixVars, edVars, llmVars,
                   valVars, convVars, pubVars,
                   excVars, resVars, adVars>>

\* Stage 4: editor_agent.run(brief, outline, article, validation issues)
Editor ==
    /\ pc = "editor"
    /\ ran' = [ran EXCEPT ![item] = Append(@, "editor")]
    /\ \/ \E sc \in EditorScores, sh \in IssuesShapes :
            /\ edits' = [edits EXCEPT ![item] = [score |-> sc, issues |-> sh]]
            /\ pc' = NextStage("editor", TRUE)
            /\ LlmCalled("editor", TRUE)
            /\ UNCHANGED <<item, raised, results>>
       \/ Fail("editor") /\ LlmCalled("editor", FALSE) /\ UNCHANGED edits
    /\ UNCHANGED <<summaryLine, dryRun, maxArticles, briefs, researchRuns, validation,
                   stored, mutations, uploads, summaries, exitCode,
                   fixVars, edVars, llmVars,
                   valVars, convVars, pubVars,
                   excVars, resVars, adVars>>

\* Stage 5/6: publish_article(brief, outline, edit, dry_run), then
\* results.append(pub_result). acquire_image uploads the image it found
\* unless dry_run; an upload error or a builder error leaves publish_article.
\* Unless dry_run the document is sent with mutate; a mutate error is caught
\* inside publish_article and reported as success False.
Publisher ==
    /\ pc = "publisher"
    /\ ran' = [ran EXCEPT ![item] = Append(@, "publisher")]
    /\ \E image \in {"none", "bytes"}, upload \in {"ok", "raise"},
          build \in {"ok", "raise"}, mutate \in {"ok", "raise"} :
        LET uploading == UploadsImage(image, dryRun)
            decision  == PublishDecision(edits[item].score)
        IN  /\ uploads' = IF uploading THEN uploads + 1 ELSE uploads
            /\ IF (uploading /\ upload = "raise") \/ build = "raise"
               THEN /\ Fail("publisher")
                    /\ UNCHANGED <<stored, mutations>>
               ELSE /\ mutations' = IF CallsMutate(dryRun) THEN mutations + 1
                                     ELSE mutations
                    /\ stored' = [stored EXCEPT ![item] =
                                     IF dryRun THEN "dry"
                                     ELSE IF mutate = "ok" THEN "ok" ELSE "failed"]
                    /\ results' = Append(results,
                           [item |-> item,
                            success |-> dryRun \/ mutate = "ok",
                            decision |-> decision])
                    /\ pc' = NextStage("publisher", TRUE)
                    /\ UNCHANGED <<item, raised>>
    /\ UNCHANGED <<summaryLine, dryRun, maxArticles, briefs, researchRuns, validation, edits,
                   summaries, exitCode, llmCalls, fixVars, edVars, llmVars,
                   valVars, convVars, pubVars,
                   excVars, resVars, adVars>>

\* _log_article_result(pub_result, edit), still inside the try block and
\* after the append: edit["issues_found"][:3] raises TypeError when
\* issues_found is a non-empty JSON object, and the except clause then
\* appends a second result for the item.
LogArticleResult ==
    /\ pc = "log"
    /\ IF edits[item].issues = "object"
       THEN Fail("log")
       ELSE GoNextItem /\ UNCHANGED <<raised, results>>
    /\ UNCHANGED <<summaryLine, dryRun, maxArticles, briefs, ran, researchRuns, validation,
                   edits, stored, mutations, uploads, summaries, exitCode,
                   llmCalls, fixVars, edVars, llmVars,
                   valVars, convVars, pubVars,
                   excVars, resVars, adVars>>

\* _log_summary(results, tracker, dry_run); return results
\* the counts of _log_summary(results, tracker, dry_run)
LogSummary(results_) ==
    LET Count(P(_)) == Cardinality({k \in DOMAIN results_ : P(results_[k])})
        success(r) == r.success
        published(r) == r.decision = "publish"
        drafted(r) == r.decision = "draft"
    IN  [total |-> Len(results_), published |-> Count(published),
         drafted |-> Count(drafted), failed |-> Len(results_) - Count(success)]

Summary ==
    /\ pc = "summary"
    /\ summaries' = summaries + 1
    /\ summaryLine' = LogSummary(results)
    /\ pc' = "returned"
    /\ UNCHANGED <<dryRun, maxArticles, briefs, item, ran, researchRuns,
                   validation, edits, raised, stored, results, mutations,
                   uploads, exitCode, llmCalls, fixVars, edVars, llmVars,
                   valVars, convVars, pubVars,
                   excVars, resVars, adVars>>

\* main after run_pipeline returned
MainExit ==
    /\ pc = "returned"
    /\ exitCode' = ExitCode(results)
    /\ pc' = "exited"
    /\ UNCHANGED <<summaryLine, dryRun, maxArticles, briefs, item, ran, researchRuns,
                   validation, edits, raised, stored, results, mutations,
                   uploads, summaries, llmCalls, fixVars, edVars, llmVars,
                   valVars, convVars, pubVars,
                   excVars, resVars, adVars>>

\* the error of research_agent.run leaves run_pipeline and main uncaught:
\* the interpreter prints the traceback and exits with status 1
MainCrash ==
    /\ pc = "crashed"
    /\ exitCode' = 1
    /\ pc' = "aborted"
    /\ UNCHANGED <<summaryLine, dryRun, maxArticles, briefs, item, ran, researchRuns,
                   validation, edits, raised, stored, results, mutations,
                   uploads, summaries, llmCalls, fixVars, edVars, llmVars,
                   valVars, convVars, pubVars,
                   excVars, resVars, adVars>>

NextPipe ==
    \/ Research \/ Outline \/ Writer \/ Validator \/ Editor \/ Publisher
    \/ LogArticleResult \/ Summary \/ MainExit \/ MainCrash

SpecPipe == InitPipe /\ [][NextPipe]_vars

----------------------------------------------------------------------------
(* Claims about the orchestrator *)

IsPrefix(a, b) == Len(a) <= Len(b) /\ a = SubSeq(b, 1, Len(a))

StageIndex(st) == CHOOSE k \in 1..Len(StageOrder) : StageOrder[k] = st

HasResult(i) == \E k \in 1..Len(results) : results[k].item = i

ResultsOf(i) == {k \in 1..Len(results) : results[k].item = i}

\* C7: Research runs once, before any item; the stages of an item run at
\* most once each in the order Outline, Writer, Validator, Editor,
\* Publisher, each after the previous one returned; no stage of item i + 1
\* runs before item i has a result (published or failed); a validation
\* report with pass = false never keeps the Editor or the Publisher from
\* running.
C7_StagesInOrder ==
    /\ researchRuns <= 1
    /\ \A i \in Items :
        /\ ran[i] # <<>> => (researchRuns = 1 /\ i <= briefs)
        /\ IsPrefix(ran[i], StageOrder)
        /\ (i > 1 /\ ran[i] # <<>>) => HasResult(i - 1)
        /\ validation[i] = "fail" =>
               \/ Len(ran[i]) >= StageIndex("editor")
               \/ (pc = "editor" /\ item = i)
        /\ (validation[i] = "fail" /\ edits[i] # NoEdit) =>
               \/ Len(ran[i]) >= StageIndex("publisher")
               \/ (pc = "publisher" /\ item = i)
    /\ pc \in Stages =>
           ran[item] = SubSeq(StageOrder, 1, StageIndex(pc) - 1)

\* C7 witness: the validation report of item 1 failed, its Editor and
\* Publisher ran all the same, and item 2 has started after it.
C7_Witness ==
    /\ validation[1] = "fail"
    /\ ran[1] = StageOrder
    /\ stored[1] = "ok"
    /\ ran[2] # <<>>

\* C8: if a stage raises for item i, no later stage runs for it, exactly one
\* result, with success = false, is recorded for it, and the later items are
\* still processed; at the end of run_pipeline, results holds exactly one
\* entry per processed brief, in brief order.
C8_OneResultPerItem ==
    /\ \A i \in Items :
        raised[i] \in Stages =>
            /\ ran[i] = SubSeq(StageOrder, 1, StageIndex(raised[i]))
            /\ Cardinality(ResultsOf(i)) = 1
            /\ \A k \in ResultsOf(i) : ~results[k].success
    /\ summaries = 1 =>
            /\ \A i \in 1..briefs : ran[i] # <<>>
            /\ Len(results) = briefs
            /\ \A k \in 1..Len(results) : results[k].item = k

\* C9: every run reaches _log_summary and returns normally, whatever the
\* stages do, Research raising or returning no briefs included. Stated on
\* the finished process: it ended by main's exit after one summary.
C9_SummaryAlwaysEmitted ==
    pc \in {"exited", "aborted"} => (pc = "exited" /\ summaries = 1)

\* an item is failed when its document did not reach the store (or, in a dry
\* run, the end of publish_article): a stage raised, or the mutation failed
ItemFailed(i) == stored[i] \notin {"ok", "dry"}

\* C10: when run_pipeline returned, main exits with status 1 exactly when at
\* least one item was processed and every processed item failed, and with
\* status 0 otherwise; an item whose store mutation failed counts as failed.
C10_ExitStatus ==
    pc = "exited" =>
        exitCode = IF briefs >= 1 /\ \A i \in 1..briefs : ItemFailed(i)
                   THEN 1 ELSE 0

\* C10 witness: two items processed, the store mutation of one failed and a
\* stage of the other raised; the exit status is 1.
C10_Witness ==
    /\ pc = "exited"
    /\ briefs = 2
    /\ \E i \in 1..briefs : stored[i] = "failed"
    /\ \E i \in 1..briefs : raised[i] \in Stages
    /\ exitCode = 1

----------------------------------------------------------------------------
(* format_validator: strings and headings *)

UpperCase == <<"A", "B", "C", "D", "E", "F", "G", "H", "I", "J", "K", "L", "M",
               "N", "O", "P", "Q", "R", "S", "T", "U", "V", "W", "X", "Y", "Z">>
LowerCase == <<"a", "b", "c", "d", "e", "f", "g", "h", "i", "j", "k", "l", "m",
               "n", "o", "p", "q", "r", "s", "t", "u", "v", "w", "x", "y", "z">>

\* str.lower() on ASCII text
LowerStr(s) ==
    LET LowerChar(c) ==
            IF \E k \in DOMAIN UpperCase : UpperCase[k] = c
            THEN LowerCase[CHOOSE k \in DOMAIN UpperCase : UpperCase[k] = c]
            ELSE c
    IN  [i \in 1..Len(s) |-> LowerChar(s[i])]

\* Python "a in s" for strings: a occurs in s as a contiguous substring
Contains(s, a) ==
    \E i \in 0..(Len(s) - Len(a)) : SubSeq(s, i + 1, i + Len(a)) = a

\* s[i:].startswith(a), i 1-based
StartsAt(s, i, a) ==
    i + Len(a) - 1 <= Len(s) /\ SubSeq(s, i, i + Len(a) - 1) = a

EndsWith(s, a) == Len(a) <= Len(s) /\ SubSeq(s, Len(s) - Len(a) + 1, Len(s)) = a

\* s.count(c) for a character c
CountChar(s, c) == Cardinality({i \in 1..Len(s) : s[i] = c})

MaxOf(S) == CHOOSE x \in S : \A y \in S : y <= x

\* index of the first \s character at or after position i, Len(s) + 1 if none
RECURSIVE NextSpace(_, _)
NextSpace(s, i) ==
    IF i > Len(s) \/ IsSpace(s[i]) THEN i ELSE NextSpace(s, i + 1)

\* s.split(): the maximal runs of non-whitespace characters
RECURSIVE Words(_)
Words(s) ==
    LET t == LStrip(s)
        e == NextSpace(t, 1)
    IN  IF t = <<>> THEN <<>>
        ELSE <<SubSeq(t, 1, e - 1)>> \o Words(SubSeq(t, e, Len(t)))

\* "\n".join(ls)
RECURSIVE JoinLines(_)
JoinLines(ls) ==
    IF ls = <<>> THEN <<>>
    ELSE IF Len(ls) = 1 THEN ls[1]
    ELSE ls[1] \o <<NL>> \o JoinLines(Tail(ls))

\* _normalize: re.sub(r"[^a-z0-9 ]+", "", text.lower()).strip()
Normalize(text) ==
    LET keep(c) == (\E k \in DOMAIN LowerCase : LowerCase[k] = c)
                   \/ c \in {"0", "1", "2", "3", "4", "5", "6", "7", "8", "9", " "}
    IN  Strip(SelectSeq(LowerStr(text), keep))

\* str.rstrip("#")
RECURSIVE RStripHash(_)
RStripHash(s) ==
    IF s # <<>> /\ s[Len(s)] = "#" THEN RStripHash(SubSeq(s, 1, Len(s) - 1)) ELSE s

\* r"^(#{1,4})\s+(.+)$" with re.MULTILINE, tried at position p: one to four
\* '#' at the start of a line, a run of \s (which may hold newlines), then
\* text up to the end of its line. When the \s run reaches the end of the
\* string, \s+ gives characters back and the text is what follows the last
\* non-newline character of the run that is not its first.
HeadingMatch(s, p) ==
    LET h == HashRun(s, p)
        j == p + h
        w == SpaceRun(s, j)
        k == j + w
        back == {b \in (j + 1)..(k - 1) : s[b] # NL}
        t == IF k <= Len(s) THEN k ELSE IF back # {} THEN MaxOf(back) ELSE 0
    IN  IF (p = 1 \/ s[p - 1] = NL) /\ h \in 1..4 /\ w >= 1 /\ t # 0
        THEN [ok |-> TRUE, level |-> h,
              text |-> Strip(RStripHash(Strip(SubSeq(s, t, NextNewline(s, t) - 1)))),
              start |-> p, end |-> NextNewline(s, t)]
        ELSE [ok |-> FALSE, level |-> 0, text |-> <<>>, start |-> p, end |-> p]

\* re.finditer over the string: p is the start of a line; after a match the
\* scan resumes at the end of the line the match ended on
RECURSIVE HeadingsFrom(_, _)
HeadingsFrom(s, p) ==
    IF p > Len(s) THEN <<>>
    ELSE LET m == HeadingMatch(s, p)
         IN  IF m.ok
             THEN <<[level |-> m.level, text |-> m.text, start |-> m.start]>>
                  \o HeadingsFrom(s, m.end + 1)
             ELSE HeadingsFrom(s, NextNewline(s, p) + 1)

\* _extract_headings(markdown)
ExtractHeadings(md) == HeadingsFrom(md, 1)

----------------------------------------------------------------------------
(* format_validator: the checks. An issue is [kind, text, nums]: the fixed  *)
(* wording of the message, the text it quotes, the numbers it cites.        *)

Issue(kind, text, nums) == [kind |-> kind, text |-> text, nums |-> nums]

\* _check_missing_sections: a section is found when every word of its
\* normalized heading longer than 3 characters occurs in one normalized
\* article heading; with no such word, when the normalized heading occurs in
\* the article headings joined by spaces
SectionFound(md, heading) ==
    LET hs == ExtractHeadings(md)
        article_headings == [i \in 1..Len(hs) |-> Normalize(hs[i].text)]
        expected == Normalize(heading)
        key_words == SelectSeq(Words(expected), LAMBDA w : Len(w) > 3)
        RECURSIVE JoinSpace(_)
        JoinSpace(ls) ==
            IF ls = <<>> THEN <<>>
            ELSE IF Len(ls) = 1 THEN ls[1]
            ELSE ls[1] \o <<" ">> \o JoinSpace(Tail(ls))
    IN  IF key_words # <<>>
        THEN \E i \in 1..Len(article_headings) :
                \A k \in 1..Len(key_words) :
                    Contains(article_headings[i], key_words[k])
        ELSE Contains(JoinSpace(article_headings), expected)

CheckMissingSections(md, ol) ==
    LET hd == [i \in 1..Len(ol.sections) |-> ol.sections[i].heading]
    IN  SelectSeq(hd, LAMBDA h : ~SectionFound(md, h))

\* _check_empty_headings: the lines after the heading's line up to the line of
\* the next heading (or the end) are all blank
CheckEmptyHeadings(md) ==
    LET hs == ExtractHeadings(md)
        lines == Lines(md)
        \* markdown[:start].count("\n"), start 1-based
        LineOf(start) == CountChar(SubSeq(md, 1, start - 1), NL)
        h_line(i) == LineOf(hs[i].start)
        next_line(i) == IF i + 1 <= Len(hs) THEN LineOf(hs[i + 1].start)
                        ELSE Len(lines)
        empty(i) == \A k \in (h_line(i) + 2)..next_line(i) :
                        k <= Len(lines) => Strip(lines[k]) = <<>>
        RECURSIVE Scan(_)
        Scan(i) ==
            IF i > Len(hs) THEN <<>>
            ELSE (IF empty(i) THEN <<Issue("Empty heading", hs[i].text, <<>>)>>
                  ELSE <<>>) \o Scan(i + 1)
    IN  Scan(1)

\* stripped.startswith("|") and stripped.endswith("|")
IsTableRow(line) ==
    StartsAt(Strip(line), 1, <<"|">>) /\ EndsWith(Strip(line), <<"|">>)

\* stripped.count("|") - 1
Cols(line) == CountChar(Strip(line), "|") - 1

\* the loop of _check_tables from line i on (1-based), with the loop's
\* variables in_table, expected_cols, table_start_line
RECURSIVE TableScan(_, _, _, _, _)
TableScan(ls, i, in_table, expected_cols, table_start_line) ==
    IF i > Len(ls) THEN <<>>
    ELSE IF IsTableRow(ls[i])
    THEN IF ~in_table
         THEN TableScan(ls, i + 1, TRUE, Cols(ls[i]), i)
         ELSE (IF Cols(ls[i]) # expected_cols
               THEN <<Issue("Table column mismatch", <<>>,
                            <<i, expected_cols, Cols(ls[i]), table_start_line>>)>>
               ELSE <<>>)
              \o TableScan(ls, i + 1, TRUE, expected_cols, table_start_line)
    ELSE TableScan(ls, i + 1, FALSE, expected_cols, table_start_line)

\* a table check that takes the first line for the second row of a table
\* of no columns
CheckTablesFromSecondRow(md) == TableScan(Lines(md), 1, TRUE, 0, 0)

\* _check_tables(markdown)
CheckTables(md) == TableScan(Lines(md), 1, FALSE, 0, 0)

\* index of the first character c at or after position i, Len(s) + 1 if none
RECURSIVE NextChar(_, _, _)
NextChar(s, i, c) ==
    IF i > Len(s) \/ s[i] = c THEN i ELSE NextChar(s, i + 1, c)

\* r"\[([^\]]*)\]\(([^)]*?)(?:\n|$)" tried at position i: '[', text up to the
\* first ']', then '(' and no ')' before the end of that line
BrokenLinkMatch(s, i) ==
    LET c == NextChar(s, i + 1, "]")
        e == NextNewline(s, c + 2)
    IN  IF /\ s[i] = "["
           /\ c + 1 <= Len(s)
           /\ s[c + 1] = "("
           /\ NextChar(s, c + 2, ")") >= e
        THEN [ok |-> TRUE,
              text |-> <<"[">> \o SubSeq(s, i + 1, c - 1) \o <<"]", "(">>
                       \o SubSeq(s, c + 2, e - 1),
              end |-> e + 1]
        ELSE [ok |-> FALSE, text |-> <<>>, end |-> i + 1]

RECURSIVE BrokenLinksFrom(_, _)
BrokenLinksFrom(s, i) ==
    IF i > Len(s) THEN <<>>
    ELSE LET m == BrokenLinkMatch(s, i)
         IN  (IF m.ok THEN <<Issue("Possibly broken link", m.text, <<>>)>> ELSE <<>>)
             \o BrokenLinksFrom(s, m.end)

\* length of the run of characters other than \s and ')' starting at i
RECURSIVE UrlRun(_, _)
UrlRun(s, i) ==
    IF i <= Len(s) /\ ~IsSpace(s[i]) /\ s[i] # ")" THEN 1 + UrlRun(s, i + 1) ELSE 0

\* r"(?<!\()(https?://[^\s\)]+)(?!\))" tried at position i: not preceded by
\* '(', and when the run of URL characters is followed by ')', the URL gives
\* its last character back
BareUrlMatch(s, i) ==
    LET scheme == IF StartsAt(s, i, <<"h", "t", "t", "p", "s", ":", "/", "/">>) THEN 8
                  ELSE IF StartsAt(s, i, <<"h", "t", "t", "p", ":", "/", "/">>) THEN 7
                  ELSE 0
        r == UrlRun(s, i + scheme)
        closed == i + scheme + r <= Len(s) /\ s[i + scheme + r] = ")"
        n == IF closed THEN r - 1 ELSE r
    IN  IF (i = 1 \/ s[i - 1] # "(") /\ scheme # 0 /\ n >= 1
        THEN [ok |-> TRUE, url |-> SubSeq(s, i, i + scheme + n - 1),
              end |-> i + scheme + n]
        ELSE [ok |-> FALSE, url |-> <<>>, end |-> i + 1]

\* the second loop of _check_links: a match is reported unless '(' is one of
\* the two characters before it; url[:60] is quoted
RECURSIVE BareUrlsFrom(_, _)
BareUrlsFrom(s, i) ==
    IF i > Len(s) THEN <<>>
    ELSE LET m == BareUrlMatch(s, i)
             linked == i >= 3 /\ s[i - 2] = "("
         IN  (IF m.ok /\ ~linked
              THEN <<Issue("Bare URL should be a markdown link",
                           SubSeq(m.url, 1, Min(60, Len(m.url))), <<>>)>>
              ELSE <<>>)
             \o BareUrlsFrom(s, m.end)

\* _check_links(markdown)
CheckLinks(md) == BrokenLinksFrom(md, 1) \o BareUrlsFrom(md, 1)

\* a word-count check whose bands are closed at the top
CheckWordCountInclusive(actual, target) ==
    IF target <= 0 \/ 100 * actual <= 70 * target
    THEN <<Issue("CRITICAL: Word count", <<>>, <<actual, target>>)>>
    ELSE IF 100 * actual <= 85 * target
    THEN <<Issue("Word count", <<>>, <<actual, target>>)>>
    ELSE <<>>

\* _check_word_count: ratio = actual / target if target > 0 else 0;
\* ratio < 0.70 is CRITICAL, ratio < 0.85 is the under-minimum warning. The
\* float comparisons agree with the exact ones for all counts up to 3000.
CheckWordCount(actual, target) ==
    IF target <= 0 \/ 100 * actual < 70 * target
    THEN <<Issue("CRITICAL: Word count", <<>>, <<actual, target>>)>>
    ELSE IF 100 * actual < 85 * target
    THEN <<Issue("Word count", <<>>, <<actual, target>>)>>
    ELSE <<>>

\* re.match(r"^#{1,4}\s+", last_line) on a stripped line
EndsWithHeading(last_line) ==
    LET h == HashRun(last_line, 1)
    IN  h \in 1..4 /\ h + 1 <= Len(last_line) /\ IsSpace(last_line[h + 1])

\* _check_abrupt_ending(markdown)
CheckAbruptEnding(md) ==
    LET lines == NonBlankLines(md)
        last_line == lines[Len(lines)]
        n == Len(last_line)
        lower_md == LowerStr(md)
    IN  IF lines = <<>> THEN <<Issue("Article is empty", <<>>, <<>>)>>
        ELSE (IF EndsWithHeading(last_line)
              THEN <<Issue("Article ends with a heading and no content",
                           last_line, <<>>)>>
              ELSE <<>>)
          \o (IF /\ last_line[n] \notin {".", "!", "?", "*", "_", ")", "\"", "'"}
                 /\ ~EndsWith(last_line, <<"-", "-", "-">>)
                 /\ ~EndsWith(last_line, <<"|">>)
              THEN <<Issue("Article may end mid-sentence",
                           SubSeq(last_line, MaxOf({1, n - 59}), n), <<>>)>>
              ELSE <<>>)
          \o (IF /\ ~Contains(lower_md, <<"d", "i", "s", "c", "l", "a", "i", "m", "e", "r">>)
                 /\ ~Contains(lower_md, <<"m", "e", "d", "i", "c", "a", "l", " ",
                                          "a", "d", "v", "i", "c", "e">>)
              THEN <<Issue("Missing medical disclaimer at end of article", <<>>, <<>>)>>
              ELSE <<>>)

----------------------------------------------------------------------------
(* format_validator.run *)

\* "CRITICAL" in issue: the word occurs in the message, in its fixed wording
\* (only the severe word-count message has it) or in the text it quotes
IsCritical(issue) ==
    \/ issue.kind = "CRITICAL: Word count"
    \/ Contains(issue.text, <<"C", "R", "I", "T", "I", "C", "A", "L">>)

\* a run that builds a new Article from the fixed text whether or not a fix
\* was applied
FixedArticleAlwaysNew(art, fix) ==
    [markdown |-> fix.fixed, word_count |-> Len(Words(fix.fixed)),
     tokens_used |-> art.tokens_used]

\* fixed_article of run: a new Article when fixes_applied is not empty, with
\* word_count = len(fixed_markdown.split()), else the article it was given
FixedArticle(art, fix) ==
    IF fix.fixes # <<>>
    THEN [markdown |-> fix.fixed, word_count |-> Len(Words(fix.fixed)),
          tokens_used |-> art.tokens_used]
    ELSE art

\* run(article, outline) -> (fixed_article, report)
ValidatorRun(art, ol) ==
    LET result(all_issues, missing_sections, fix) ==
            [article |-> FixedArticle(art, fix),
             report |->
                [issues |-> all_issues,
                 fixes_applied |-> fix.fixes,
                 missing_sections |-> missing_sections,
                 pass |-> /\ ~\E i \in 1..Len(all_issues) : IsCritical(all_issues[i])
                          /\ Len(all_issues) <= 3,
                 issue_count |-> Len(all_issues)]]
        checks(md, missing_sections) ==
            result([i \in 1..Len(missing_sections) |->
                        Issue("Missing outline section", missing_sections[i], <<>>)]
                   \o CheckEmptyHeadings(md)
                   \o CheckTables(md)
                   \o CheckLinks(md)
                   \o CheckWordCount(art.word_count, ol.total_target_words)
                   \o CheckAbruptEnding(md),
                   missing_sections, AutoFix(md))
    IN  checks(art.markdown, CheckMissingSections(art.markdown, ol))

----------------------------------------------------------------------------
(* Specification of the validator: run on an article and an outline, then   *)
(* run again on the article it returned                                     *)

SeqsUpTo(S, n) == UNION {[1..k -> S] : k \in 0..n}

HowToUseThisProduct ==
    <<"H", "o", "w", " ", "T", "o", " ", "U", "s", "e", " ",
      "T", "h", "i", "s", " ", "P", "r", "o", "d", "u", "c", "t">>

HowToUseIt == <<"H", "o", "w", " ", "t", "o", " ", "U", "s", "e", " ", "I", "t">>

\* the writer's tokens_used is a count larger than any word count explored
MakeArticle(md, wc) ==
    [markdown |-> md, word_count |-> wc, tokens_used |-> MaxWords + 1]

MakeOutline(hs, target) ==
    [sections |-> [i \in 1..Len(hs) |-> [heading |-> hs[i]]],
     total_target_words |-> target]

\* the arguments of run that are explored
ValInputs ==
    LET Text == <<"T", "e", "x", "t", ".">>
        Disclaimer == <<"D", "i", "s", "c", "l", "a", "i", "m", "e", "r", ".">>
        \* blank, text, text with the disclaimer, headings
        DocLines ==
            { <<>>, Text, Disclaimer,
              <<"#", "#", " ", "F", "A", "Q">>,
              <<"#", "#", " ", "C", "R", "I", "T", "I", "C", "A", "L">> }
        SectionHeadings ==
            { <<"F", "A", "Q">>, <<"C", "R", "I", "T", "I", "C", "A", "L">> }
        \* headings with "how" and "use"
        HeadingLines ==
            { <<"#", "#", "#", " ">> \o HowToUseThisProduct,
              <<"#", "#", " ", "H", "o", "w", " ", "t", "o">>,
              <<"#", "#", " ", "U", "s", "e", " ", "i", "t">>,
              Disclaimer }
        \* rows of 3 and 4 columns, text, blank
        TableLines ==
            { <<"|", "a", "|", "a", "|", "a", "|">>,
              <<"|", "a", "|", "a", "|", "a", "|", "a", "|">>,
              Text, <<>> }
        \* an unclosed link, a bare URL, a URL in parentheses, a link, text
        LinkLines ==
            { <<"[", "a", "]", "(", "b">>,
              <<"h", "t", "t", "p", ":", "/", "/", "a">>,
              <<"(", "h", "t", "t", "p", ":", "/", "/", "a", ")">>,
              <<"[", "a", "]", "(", "h", "t", "t", "p", ":", "/", "/", "a", ")">>,
              Text }
        \* every word count against every target, on one article
        WordCountInputs ==
            { [article |-> MakeArticle(Text, wc), outline |-> MakeOutline(<<>>, target)] :
                wc \in 0..MaxWords, target \in (-1)..MaxWords }
        \* articles of up to MaxDocLines lines against outlines of up to
        \* MaxSections sections, with a word count on target and one far below
        StructureInputs ==
            { [article |-> MakeArticle(JoinLines(ls), wc),
               outline |-> MakeOutline(hs, MaxWords)] :
                ls \in SeqsUpTo(DocLines, MaxDocLines),
                hs \in SeqsUpTo(SectionHeadings, MaxSections),
                wc \in {0, MaxWords} }
        \* articles with "how" and "use" headings against the outline section
        \* "How to Use It"
        HeadingInputs ==
            { [article |-> MakeArticle(JoinLines(ls), MaxWords),
               outline |-> MakeOutline(<<HowToUseIt>>, MaxWords)] :
                ls \in SeqsUpTo(HeadingLines, MaxDocLines) }
        \* articles with tables
        TableInputs ==
            { [article |-> MakeArticle(JoinLines(ls), MaxWords),
               outline |-> MakeOutline(<<>>, MaxWords)] :
                ls \in SeqsUpTo(TableLines, MaxRows) }
        \* articles with links
        LinkInputs ==
            { [article |-> MakeArticle(JoinLines(ls), MaxWords),
               outline |-> MakeOutline(<<>>, MaxWords)] :
                ls \in SeqsUpTo(LinkLines, MaxDocLines) }
        \* articles whose word_count is the count of their markdown, as the
        \* writer computes it, against every target an article of that many
        \* lines can meet
        CountedInputs ==
            { [article |-> MakeArticle(JoinLines(ls), Len(Words(JoinLines(ls)))),
               outline |-> MakeOutline(<<>>, target)] :
                ls \in SeqsUpTo(DocLines, MaxDocLines),
                target \in 1..(2 * MaxDocLines) }
    IN  WordCountInputs \cup StructureInputs \cup HeadingInputs \cup TableInputs
        \cup LinkInputs \cup CountedInputs

InitVal ==
    /\ \E in \in ValInputs : article = in.article /\ outline = in.outline
    /\ valPc = "input"
    /\ report = <<>> /\ fixedArticle = <<>> /\ rereport = <<>>
    /\ IdleFix /\ IdleEd /\ IdleLlm /\ IdlePipe /\ IdleConv /\ IdlePub /\ IdleOthers

\* article, validation = format_validator.run(article, outline)
Validate ==
    /\ valPc = "input"
    /\ LET return(r) == fixedArticle' = r.article /\ report' = r.report
       IN  return(ValidatorRun(article, outline))
    /\ valPc' = "validated"
    /\ UNCHANGED <<article, outline, rereport,
                   fixVars, edVars, llmVars, pipeVars, convVars, pubVars,
                   excVars, resVars, adVars>>

\* format_validator.run on the article the first run returned
Revalidate ==
    /\ valPc = "validated"
    /\ rereport' = ValidatorRun(fixedArticle, outline).report
    /\ valPc' = "revalidated"
    /\ UNCHANGED <<article, outline, report, fixedArticle,
                   fixVars, edVars, llmVars, pipeVars, convVars, pubVars,
                   excVars, resVars, adVars>>

NextVal == Validate \/ Revalidate

SpecVal == InitVal /\ [][NextVal]_vars

----------------------------------------------------------------------------
(* Claims about the validator *)

Validated == valPc \in {"validated", "revalidated"}

IssuesOfKind(r, kinds) == SelectSeq(r.issues, LAMBDA x : x.kind \in kinds)

\* C11: the report's pass flag is true exactly when no issue is CRITICAL and
\* there are at most 3 issues, a CRITICAL issue being one the word-count check
\* raised at a ratio below 0.70 (text quoted inside other issues never makes
\* the report critical); issue_count equals the number of issues.
C11_PassIffNoCriticalAndFew ==
    Validated =>
        /\ report.pass = (/\ IssuesOfKind(report, {"CRITICAL: Word count"}) = <<>>
                          /\ Len(report.issues) <= 3)
        /\ report.issue_count = Len(report.issues)

\* C12: for a target above 0 the word-count check yields exactly one CRITICAL
\* issue when actual/target < 0.70, exactly one non-critical issue when
\* 0.70 <= actual/target < 0.85, and none when actual/target >= 0.85; a
\* target of 0 or less yields the CRITICAL issue.
C12_WordCountBands ==
    Validated =>
        LET actual == article.word_count
            target == outline.total_target_words
            w == IssuesOfKind(report, {"CRITICAL: Word count", "Word count"})
        IN  IF target <= 0 \/ 10 * actual < 7 * target
            THEN Len(w) = 1 /\ IsCritical(w[1]) /\ w[1].nums = <<actual, target>>
            ELSE IF 20 * actual < 17 * target
            THEN Len(w) = 1 /\ ~IsCritical(w[1]) /\ w[1].nums = <<actual, target>>
            ELSE w = <<>>

\* the ratio is exactly 0.70 and the check gave its non-critical issue
C12_Witness ==
    /\ valPc = "validated"
    /\ outline.total_target_words > 0
    /\ 10 * article.word_count = 7 * outline.total_target_words
    /\ Len(IssuesOfKind(report, {"Word count"})) = 1
    /\ IssuesOfKind(report, {"CRITICAL: Word count"}) = <<>>

\* the first line of the contiguous run of table rows that line i is in
RunStart(ls, i) ==
    CHOOSE r \in 1..i :
        /\ \A k \in r..i : IsTableRow(ls[k])
        /\ r = 1 \/ ~IsTableRow(ls[r - 1])

\* the rows whose column count differs from their run's first row
Mismatched(ls) ==
    {i \in 1..Len(ls) : IsTableRow(ls[i]) /\ Cols(ls[i]) # Cols(ls[RunStart(ls, i)])}

Rows3343 ==
    JoinLines(<< <<"|", "a", "|", "a", "|", "a", "|">>,
                 <<"|", "a", "|", "a", "|", "a", "|">>,
                 <<"|", "a", "|", "a", "|", "a", "|", "a", "|">>,
                 <<"|", "a", "|", "a", "|", "a", "|">> >>)

\* C13: in the table check the expected column count of a contiguous run of
\* pipe-delimited lines is that of its first row, and the issues are exactly
\* the later rows whose count differs, in line order, each citing its own
\* 1-based line number and the run's starting line; rows of 3, 3, 4, 3
\* columns give exactly one issue, for the 4-column row.
C13_TableMismatches ==
    Validated =>
        LET ls == Lines(article.markdown)
            t == IssuesOfKind(report, {"Table column mismatch"})
        IN  /\ {t[k].nums[1] : k \in 1..Len(t)} = Mismatched(ls)
            /\ \A k \in 1..Len(t) :
                LET i == t[k].nums[1]
                IN  /\ t[k].nums = <<i, Cols(ls[RunStart(ls, i)]), Cols(ls[i]),
                                     RunStart(ls, i)>>
                    /\ k > 1 => t[k - 1].nums[1] < i
            /\ article.markdown = Rows3343 =>
                  t = <<Issue("Table column mismatch", <<>>, <<3, 3, 4, 1>>)>>

\* the table of 3, 3, 4, 3 columns was checked and one issue came out
C13_Witness ==
    /\ valPc = "validated"
    /\ article.markdown = Rows3343
    /\ Len(IssuesOfKind(report, {"Table column mismatch"})) = 1

HasSection(ol, h) == \E i \in 1..Len(ol.sections) : ol.sections[i].heading = h

\* C14: the outline section "How to Use It" is considered present when the
\* article has the heading "### How To Use This Product", and is reported
\* missing when no article heading mentions both "how" and "use".
C14_HowToUseItMatched ==
    (Validated /\ HasSection(outline, HowToUseIt)) =>
        LET hs == ExtractHeadings(article.markdown)
            mentions(i, w) == Contains(LowerStr(hs[i].text), w)
            reported == \E k \in 1..Len(report.missing_sections) :
                            report.missing_sections[k] = HowToUseIt
        IN  /\ (\E i \in 1..Len(hs) : hs[i].text = HowToUseThisProduct) => ~reported
            /\ (~\E i \in 1..Len(hs) : /\ mentions(i, <<"h", "o", "w">>)
                                       /\ mentions(i, <<"u", "s", "e">>)) => reported

EndsWithHeadingReported(r) ==
    IssuesOfKind(r, {"Article ends with a heading and no content"}) # <<>>

\* C15: for every article whose markdown ends with a heading that has nothing
\* after it, run removes that trailing heading, fixes_applied has a message
\* naming it, and validating the returned article again no longer reports
\* "Article ends with a heading and no content".
C15_TrailingHeadingFixed ==
    (valPc = "revalidated" /\ EndsWithHeadingReported(report)) =>
        LET lines == NonBlankLines(article.markdown)
            last_line == lines[Len(lines)]
        IN  /\ NonBlankLines(fixedArticle.markdown) = SubSeq(lines, 1, Len(lines) - 1)
            /\ \E k \in 1..Len(report.fixes_applied) :
                  report.fixes_applied[k] = <<"Removed trailing empty heading", last_line>>
            /\ ~EndsWithHeadingReported(rereport)

----------------------------------------------------------------------------
(* markdown_to_portable_text: inline marks *)

\* r'\[([^\]]+)\]\(([^)]+)\)' tried at position i: '[', at least one
\* character up to the first ']', then '(', at least one character up to the
\* first ')'
LinkMatch(s, i) ==
    LET c == NextChar(s, i + 1, "]")
        d == NextChar(s, c + 2, ")")
    IN  IF /\ i <= Len(s) /\ s[i] = "["
           /\ c > i + 1 /\ c + 1 <= Len(s) /\ s[c + 1] = "("
           /\ d > c + 2 /\ d <= Len(s)
        THEN [ok |-> TRUE, text |-> SubSeq(s, i + 1, c - 1),
              url |-> SubSeq(s, c + 2, d - 1), end |-> d + 1]
        ELSE [ok |-> FALSE, text |-> <<>>, url |-> <<>>, end |-> i]

\* r'\*{n}(.+?)\*{n}' tried at position i: n asterisks, the shortest
\* non-empty text with no newline, then n asterisks
EmphasisMatch(s, i, n) ==
    LET stars == [k \in 1..n |-> "*"]
        first(closes) == IF closes = {} THEN Len(s) + 1
                         ELSE CHOOSE x \in closes : \A y \in closes : x <= y
        match(e) ==
            IF StartsAt(s, i, stars) /\ e <= Len(s)
               /\ ~HasNewline(SubSeq(s, i + n, e - 1))
            THEN [ok |-> TRUE, text |-> SubSeq(s, i + n, e - 1), url |-> <<>>,
                  end |-> e + n]
            ELSE [ok |-> FALSE, text |-> <<>>, url |-> <<>>, end |-> i]
    IN  match(first({e \in (i + n + 1)..Len(s) : StartsAt(s, e, stars)}))

\* the alternation of _parse_inline's pattern tried at position i: link,
\* then ***bold italic***, then **bold**, then *italic*
InlineMatch(s, i) ==
    LET tag(m, k) == [ok |-> m.ok, kind |-> k, text |-> m.text, url |-> m.url,
                      end |-> m.end]
        pick(link, strong_em, strong, em) ==
            IF link.ok THEN tag(link, "link")
            ELSE IF strong_em.ok THEN tag(strong_em, "strong_em")
            ELSE IF strong.ok THEN tag(strong, "strong")
            ELSE tag(em, "em")
    IN  pick(LinkMatch(s, i), EmphasisMatch(s, i, 3), EmphasisMatch(s, i, 2),
             EmphasisMatch(s, i, 1))

\* the spans and mark definitions one match appends; a link's key is
\* modelled by the position of its definition in the block's markDefs
MatchSpans(m, ndefs) ==
    LET span(t, ms) == [text |-> t, marks |-> ms]
        mark(x) == [mark |-> x, def |-> 0]
        link == [mark |-> "link", def |-> ndefs + 1]
        \* re.match(r'^\[([^\]]+)\]\(([^)]+)\)(.*)$', inner)
        styled(inner, trailing) ==
            IF inner.ok
            THEN [spans |-> <<span(inner.text, <<mark(m.kind), link>>)>>
                            \o (IF trailing # <<>>
                                THEN <<span(trailing, <<mark(m.kind)>>)>>
                                ELSE <<>>),
                  markDefs |-> <<[href |-> inner.url]>>]
            ELSE [spans |-> <<span(m.text, <<mark(m.kind)>>)>>, markDefs |-> <<>>]
    IN  IF m.kind = "link"
        THEN [spans |-> <<span(m.text, <<link>>)>>,
              markDefs |-> <<[href |-> m.url]>>]
        ELSE IF m.kind = "strong_em"
        THEN [spans |-> <<span(m.text, <<mark("strong"), mark("em")>>)>>,
              markDefs |-> <<>>]
        ELSE styled(LinkMatch(m.text, 1),
                    SubSeq(m.text, LinkMatch(m.text, 1).end, Len(m.text)))

\* the finditer loop of _parse_inline from position i on, last_end being the
\* first character not yet put in a span, and the remaining text after it
RECURSIVE InlineFrom(_, _, _, _)
InlineFrom(s, i, last_end, ndefs) ==
    LET plain(a, b) == IF a <= b
                       THEN <<[text |-> SubSeq(s, a, b), marks |-> <<>>]>>
                       ELSE <<>>
        join(here, rest) ==
            [spans |-> plain(last_end, i - 1) \o here.spans \o rest.spans,
             markDefs |-> here.markDefs \o rest.markDefs]
        emit(m, here) ==
            join(here, InlineFrom(s, m.end, m.end, ndefs + Len(here.markDefs)))
        at(m) == IF m.ok THEN emit(m, MatchSpans(m, ndefs))
                 ELSE InlineFrom(s, i + 1, last_end, ndefs)
    IN  IF i > Len(s)
        THEN [spans |-> plain(last_end, Len(s)), markDefs |-> <<>>]
        ELSE at(InlineMatch(s, i))

\* _parse_inline without its "if not spans" fallback
ParseInlineNoFallback(text) == InlineFrom(text, 1, 1, 0)

\* _parse_inline(text)
ParseInline(text) ==
    LET fallback(r) == IF r.spans = <<>>
                       THEN [spans |-> <<[text |-> text, marks |-> <<>>]>>,
                             markDefs |-> r.markDefs]
                       ELSE r
    IN  fallback(InlineFrom(text, 1, 1, 0))

\* _make_block(style, text, list_item, level); listItem "" and level 0 stand
\* for a block without these fields. text and src are not fields of the
\* block: they record the text the block was made from and the numbers of
\* the input lines that text came from.
MakeBlock(style, text, list_item, level, src) ==
    LET block(inline) ==
            [style |-> style, children |-> inline.spans,
             markDefs |-> inline.markDefs,
             listItem |-> list_item, level |-> IF list_item = "" THEN 0 ELSE level,
             text |-> text, src |-> src]
    IN  block(ParseInline(text))

----------------------------------------------------------------------------
(* markdown_to_portable_text: the line loop *)

\* sep.join(ls)
RECURSIVE Join(_, _)
Join(ls, sep) ==
    IF ls = <<>> THEN <<>>
    ELSE IF Len(ls) = 1 THEN ls[1]
    ELSE ls[1] \o sep \o Join(Tail(ls), sep)

\* number of consecutive characters of the set S starting at position i
RECURSIVE RunOf(_, _, _)
RunOf(s, i, S) ==
    IF i <= Len(s) /\ s[i] \in S THEN 1 + RunOf(s, i + 1, S) ELSE 0

\* flush_paragraph(): the buffered lines joined by a space become one
\* "normal" block; an entry of a buffer is a line's text with its number
FlushParagraphDiscard(st) == [st EXCEPT !.paragraph_buffer = <<>>]

FlushParagraph(st) ==
    LET buf == st.paragraph_buffer
        text == Strip(Join([k \in 1..Len(buf) |-> buf[k].text], <<" ">>))
        src == [k \in 1..Len(buf) |-> buf[k].line]
    IN  IF buf = <<>> THEN st
        ELSE [st EXCEPT !.blocks = IF text # <<>>
                                   THEN @ \o <<MakeBlock("normal", text, "", 0, src)>>
                                   ELSE @,
                        !.paragraph_buffer = <<>>]

\* flush_table(): the buffered rows joined by newlines become one block
FlushTable(st) ==
    LET buf == st.table_buffer
        text == Join([k \in 1..Len(buf) |-> buf[k].text], <<NL>>)
        src == [k \in 1..Len(buf) |-> buf[k].line]
    IN  IF buf = <<>> THEN st
        ELSE [st EXCEPT !.blocks = @ \o <<MakeBlock("normal", text, "", 0, src)>>,
                        !.table_buffer = <<>>]

\* r'^[\s]*[-*_]{3,}\s*$' on the right-stripped line
IsHorizontalRule(line) ==
    LET stripped == RStrip(line)
        indent == SpaceRun(stripped, 1)
    IN  /\ Len(stripped) - indent >= 3
        /\ RunOf(stripped, indent + 1, {"-", "*", "_"}) = Len(stripped) - indent

\* the first of the loop's tests that a line passes, in the loop's order,
\* with the style, text, list kind and level of the block the line gives
LineMatch(line) ==
    LET stripped == RStrip(line)
        t == Strip(line)
        indent == SpaceRun(stripped, 1)
        m(kind, style, text, list_item) ==
            [kind |-> kind, style |-> style, text |-> text,
             list_item |-> list_item, level |-> 1 + indent \div 2]
        \* r'^(#{1,4})\s+(.+)$'
        level == HashRun(t, 1)
        heading0 == Strip(SubSeq(t, level + 1, Len(t)))
        \* re.sub(r'\s*#+\s*$', '', heading_text)
        heading_text == IF heading0 # <<>> /\ heading0[Len(heading0)] = "#"
                        THEN RStrip(RStripHash(heading0))
                        ELSE heading0
        \* r'^(\s*)\d+\.\s+(.+)$'
        digits == RunOf(stripped, indent + 1,
                        {"0", "1", "2", "3", "4", "5", "6", "7", "8", "9"})
        \* r'^\*\*([^*]+)\*\*:?\s*$'
        close == NextChar(t, 3, "*")
    IN  IF t = <<>> THEN m("blank", "", <<>>, "")
        ELSE IF level \in 1..4 /\ level < Len(t) /\ IsSpace(t[level + 1])
        THEN m("heading", IF level >= 2 THEN <<"h2", "h3", "h4">>[level - 1] ELSE "h2",
               heading_text, "")
        \* r'^>\s*(.*)$'
        ELSE IF t[1] = ">" THEN m("blockquote", "blockquote", Strip(Tail(t)), "")
        \* r'^(\s*)([-*])\s+(.+)$'
        ELSE IF /\ indent + 1 < Len(stripped)
                /\ stripped[indent + 1] \in {"-", "*"}
                /\ IsSpace(stripped[indent + 2])
        THEN m("list", "normal", Strip(SubSeq(stripped, indent + 2, Len(stripped))),
               "bullet")
        ELSE IF /\ digits >= 1
                /\ indent + digits + 1 < Len(stripped)
                /\ stripped[indent + digits + 1] = "."
                /\ IsSpace(stripped[indent + digits + 2])
        THEN m("list", "normal",
               Strip(SubSeq(stripped, indent + digits + 2, Len(stripped))), "number")
        ELSE IF t[1] = "|" THEN m("table", "", t, "")
        ELSE IF IsHorizontalRule(line) THEN m("rule", "", <<>>, "")
        ELSE IF /\ StartsAt(t, 1, <<"*", "*">>)
                /\ close > 3 /\ StartsAt(t, close, <<"*", "*">>)
                /\ \/ Len(t) = close + 1
                   \/ Len(t) = close + 2 /\ t[Len(t)] = ":"
        THEN m("pseudo", "h3", Strip(SubSeq(t, 3, close - 1)), "")
        ELSE m("text", "", t, "")

\* one pass of the for loop of markdown_to_portable_text, on line number i.
\* flush_table() is called for a blank line and for a line that passes the
\* table-row test without being a row; flush_paragraph() for every line
\* that is not paragraph text, after flush_table() where both are called.
ProcessLine(st, line, i) ==
    LET append(m, flushed) ==
            IF m.kind \in {"heading", "blockquote", "list", "pseudo"}
            THEN [flushed EXCEPT !.blocks =
                      @ \o <<MakeBlock(m.style, m.text, m.list_item, m.level, <<i>>)>>]
            ELSE IF m.kind = "table"
            THEN [flushed EXCEPT !.table_buffer = @ \o <<[text |-> m.text, line |-> i]>>]
            ELSE IF m.kind = "text"
            THEN [flushed EXCEPT !.paragraph_buffer =
                      @ \o <<[text |-> m.text, line |-> i]>>]
            ELSE flushed
        paragraph(m, tabled) ==
            append(m, IF m.kind # "text" THEN FlushParagraph(tabled) ELSE tabled)
        table(m) ==
            paragraph(m, IF m.kind \in {"blank", "rule", "pseudo", "text"}
                         THEN FlushTable(st) ELSE st)
    IN  table(LineMatch(line))

----------------------------------------------------------------------------
(* Specification of the converter: markdown_to_portable_text on a markdown  *)
(* string, one step per line of the input                                   *)

\* documents of up to MaxDocLines lines, each line one of: blank, text,
\* heading, blockquote (with and without text), bullet, numbered item, table
\* row, horizontal rule, pseudo-header, and text with inline marks
ConvInputs ==
    LET ConvLines == {
            <<>>,
            <<"a">>,
            <<"#", "#", " ", "H">>,
            <<">", " ", "q">>,
            <<">">>,
            <<"-", " ", "b">>,
            <<"1", ".", " ", "n">>,
            <<"|", "c", "|">>,
            <<"-", "-", "-">>,
            <<"*", "*", "P", ":", "*", "*">>,
            <<"*", "i", "*", " ", "[", "l", "]", "(", "u", ")">>,
            <<"*", "*", "[", "l", "]", "(", "u", ")", "*", "*", "t">>,
            <<"*", "*", "*", "x", "*", "*", "*">>}
    IN  {JoinLines(ls) : ls \in SeqsUpTo(ConvLines, MaxDocLines)}

InitConv ==
    /\ markdown_str \in ConvInputs
    /\ convPc = "called"
    /\ lineIdx = 0 /\ blocks = <<>>
    /\ paragraph_buffer = <<>> /\ table_buffer = <<>>
    /\ IdleFix /\ IdleEd /\ IdleLlm /\ IdlePipe /\ IdleVal /\ IdlePub /\ IdleOthers

\* the empty-input return, else lines = markdown_str.split("\n")
ConvStart ==
    /\ convPc = "called"
    /\ IF Strip(markdown_str) = <<>>
       THEN convPc' = "returned" /\ lineIdx' = lineIdx
       ELSE convPc' = "loop" /\ lineIdx' = 1
    /\ UNCHANGED <<markdown_str, blocks, paragraph_buffer, table_buffer,
                   fixVars, edVars, llmVars, pipeVars, valVars, pubVars,
                   excVars, resVars, adVars>>

\* one pass of "for line in lines"
ConvLine ==
    /\ convPc = "loop" /\ lineIdx <= Len(Lines(markdown_str))
    /\ LET set(st) == /\ blocks' = st.blocks
                      /\ paragraph_buffer' = st.paragraph_buffer
                      /\ table_buffer' = st.table_buffer
       IN  set(ProcessLine([blocks |-> blocks,
                            paragraph_buffer |-> paragraph_buffer,
                            table_buffer |-> table_buffer],
                           Lines(markdown_str)[lineIdx], lineIdx))
    /\ lineIdx' = lineIdx + 1
    /\ UNCHANGED <<markdown_str, convPc,
                   fixVars, edVars, llmVars, pipeVars, valVars, pubVars,
                   excVars, resVars, adVars>>

\* after the loop: flush_table(), flush_paragraph(), return blocks
ConvFinish ==
    /\ convPc = "loop" /\ lineIdx > Len(Lines(markdown_str))
    /\ LET set(st) == /\ blocks' = st.blocks
                      /\ paragraph_buffer' = st.paragraph_buffer
                      /\ table_buffer' = st.table_buffer
       IN  set(FlushParagraph(FlushTable([blocks |-> blocks,
                            paragraph_buffer |-> paragraph_buffer,
                            table_buffer |-> table_buffer])))
    /\ convPc' = "returned"
    /\ UNCHANGED <<markdown_str, lineIdx,
                   fixVars, edVars, llmVars, pipeVars, valVars, pubVars,
                   excVars, resVars, adVars>>

NextConv == ConvStart \/ ConvLine \/ ConvFinish

SpecConv == InitConv /\ [][NextConv]_vars

----------------------------------------------------------------------------
(* Claims about the converter *)

Returned == convPc = "returned"

\* the numbers of the input lines a block was made from
SrcLines(b) == {b.src[k] : k \in DOMAIN b.src}

\* C16: blocks come out in source order, a block made from earlier lines
\* never after a block made from later lines, and the lines of a block are
\* consecutive lines of the input.
C16_BlocksInSourceOrder ==
    /\ \A j, k \in DOMAIN blocks :
          j < k => \A a \in SrcLines(blocks[j]), b \in SrcLines(blocks[k]) : a < b
    /\ \A k \in DOMAIN blocks :
          \A n \in 1..(Len(blocks[k].src) - 1) :
              blocks[k].src[n + 1] = blocks[k].src[n] + 1

\* the blocks that line number i went into
BlocksOfLine(i) == {k \in DOMAIN blocks : i \in SrcLines(blocks[k])}

\* C17 as stated: when the conversion has returned, every non-blank line of
\* the input went into exactly one block.
C17_EveryLineInOneBlock ==
    Returned =>
        \A i \in DOMAIN Lines(markdown_str) :
            Strip(Lines(markdown_str)[i]) # <<>> => Cardinality(BlocksOfLine(i)) = 1

\* C17 amended: when the conversion has returned, every non-blank line that
\* is not a horizontal rule went into exactly one block, once, and blank
\* lines and horizontal rules went into none.
C17_EveryLineButRulesInOneBlock ==
    Returned =>
        \A i \in DOMAIN Lines(markdown_str) :
            LET line == Lines(markdown_str)[i]
            IN  IF Strip(line) = <<>> \/ IsHorizontalRule(line)
                THEN BlocksOfLine(i) = {}
                ELSE /\ Cardinality(BlocksOfLine(i)) = 1
                     /\ \A k \in BlocksOfLine(i) :
                           Cardinality({n \in DOMAIN blocks[k].src :
                                           blocks[k].src[n] = i}) = 1

\* a returned conversion of an input with a horizontal rule and a paragraph
\* of two lines
C17_Witness ==
    /\ Returned
    /\ \E i \in DOMAIN Lines(markdown_str) : IsHorizontalRule(Lines(markdown_str)[i])
    /\ \E k \in DOMAIN blocks :
          Len(blocks[k].src) = 2 /\ blocks[k].text = <<"a", " ", "a">>

\* the pattern of _parse_inline matches nowhere in the text
NoInlineMarkers(text) == \A i \in 1..Len(text) : ~InlineMatch(text, i).ok

\* C18: every block has at least one span, and a block whose text has no
\* recognised inline marker has exactly one span, with no marks and the whole
\* text.
C18_BlocksHaveSpans ==
    \A k \in DOMAIN blocks :
        /\ blocks[k].children # <<>>
        /\ NoInlineMarkers(blocks[k].text) =>
               blocks[k].children = <<[text |-> blocks[k].text, marks |-> <<>>]>>

\* a returned conversion with a block of empty text, a block of plain text
\* and a block whose text has marks
C18_Witness ==
    /\ Returned
    /\ \E k \in DOMAIN blocks : blocks[k].text = <<>>
    /\ \E k \in DOMAIN blocks :
          blocks[k].text # <<>> /\ NoInlineMarkers(blocks[k].text)
    /\ \E k \in DOMAIN blocks : Len(blocks[k].children) > 1

----------------------------------------------------------------------------
(* publisher.publish_article *)

DraftsPrefix == <<"d", "r", "a", "f", "t", "s", ".">>

\* _BUILDERS.get(content_type, _build_usecase_doc): the builder's id prefix
\* and the _type of the document it makes
Builder(content_type) ==
    CASE content_type = "review" ->
            [prefix |-> <<"r", "e", "v", "i", "e", "w", "-">>, type |-> "review"]
      [] content_type = "comparison" ->
            [prefix |-> <<"c", "o", "m", "p", "a", "r", "i", "s", "o", "n", "-">>,
             type |-> "comparison"]
      [] content_type = "faq" ->
            [prefix |-> <<"f", "a", "q", "-">>, type |-> "faq"]
      [] OTHER ->
            [prefix |-> <<"u", "s", "e", "c", "a", "s", "e", "-">>, type |-> "useCase"]

\* a builder that never marks the id as a draft
DocIdNeverDraft(prefix, slug, score) == prefix \o slug

\* doc_id of every builder: f"{prefix}{slug}", then f"drafts.{doc_id}"
\* when the score is below the threshold
DocId(prefix, slug, score) ==
    IF score < PUBLISH_THRESHOLD THEN DraftsPrefix \o (prefix \o slug)
    ELSE prefix \o slug

\* the document a builder returns: the fields the id and the store key
\* depend on, and the image reference
BuildDoc(brief, outline_, edit_, image_ref) ==
    [_type |-> Builder(brief.content_type).type,
     _id |-> DocId(Builder(brief.content_type).prefix, outline_.slug,
                   edit_.confidence_score),
     slug |-> outline_.slug,
     confidenceScore |-> edit_.confidence_score,
     mainImage |-> image_ref]

\* acquire_image: the reference returned for the image bytes found ("none"
\* when neither Amazon nor DALL-E gave any) and the outcome of the upload
ImageRef(image, upload, dry_run) ==
    IF image = "none" THEN "none"
    ELSE IF dry_run THEN "image-dry-run"
    ELSE IF upload = "ok" THEN "asset" ELSE "none"

\* one call publish_article(pubBrief, pubOutline, pubEdit, dry_run), ending at
\* position next. The image bytes come from Amazon (only with an ASIN), from
\* DALL-E, or from neither; upload_image returns an asset id, returns none,
\* or raises, which leaves publish_article; mutate returns or raises, which
\* publish_article reports as success False.
PublishCall(dry_run, next) ==
    \E image \in {"none", "editorial"}
                 \cup (IF pubBrief.asin # "" THEN {"product"} ELSE {}),
       upload \in {"ok", "none", "raise"}, mutate \in {"ok", "raise"} :
        LET uploaded == IF UploadsImage(image, dry_run)
                        THEN <<[call |-> "upload_image", id |-> <<>>]>>
                        ELSE <<>>
            return(doc) ==
                /\ pubDoc' = Append(pubDoc, doc)
                /\ pubResult' = Append(pubResult,
                       [id |-> doc._id,
                        type |-> pubBrief.content_type,
                        score |-> pubEdit.confidence_score,
                        decision |-> PublishDecision(pubEdit.confidence_score),
                        success |-> ~CallsMutate(dry_run) \/ mutate = "ok"])
                /\ pubStore' = pubStore \o uploaded \o
                       (IF CallsMutate(dry_run)
                        THEN <<[call |-> "mutate", id |-> doc._id]>>
                        ELSE <<>>)
        IN  /\ pubDryRun' = dry_run
            /\ pubPc' = next
            /\ IF UploadsImage(image, dry_run) /\ upload = "raise"
               THEN /\ pubStore' = pubStore \o uploaded
                    /\ UNCHANGED <<pubDoc, pubResult>>
               ELSE return(BuildDoc(pubBrief, pubOutline, pubEdit,
                                    ImageRef(image, upload, dry_run)))

----------------------------------------------------------------------------
(* Specification of the publisher: publish_article on one article, then     *)
(* publish_article on the same article again                                *)

\* the content types of _BUILDERS and one that is not among them; slugs, one
\* of them beginning like a draft id; scores around the threshold
PubInputs ==
    [content_type : {"review", "best-for", "comparison", "faq", "how-to"},
     asin : {"", "B01"},
     slug : {<<"a">>, <<"a", "-", "b">>, DraftsPrefix \o <<"a">>},
     score : (PUBLISH_THRESHOLD - MaxScoreDelta)..(PUBLISH_THRESHOLD + MaxScoreDelta)]

InitPub ==
    /\ \E in \in PubInputs :
          /\ pubBrief = [content_type |-> in.content_type, asin |-> in.asin]
          /\ pubOutline = [slug |-> in.slug]
          /\ pubEdit = [confidence_score |-> in.score]
    /\ pubDryRun \in BOOLEAN
    /\ pubPc = "called"
    /\ pubDoc = <<>> /\ pubResult = <<>> /\ pubStore = <<>>
    /\ IdleFix /\ IdleEd /\ IdleLlm /\ IdlePipe /\ IdleVal /\ IdleConv /\ IdleOthers

\* publish_article(brief, outline, edit, dry_run)
PublishArticle ==
    /\ pubPc = "called"
    /\ PublishCall(pubDryRun, "published")
    /\ UNCHANGED <<pubBrief, pubOutline, pubEdit,
                   fixVars, edVars, llmVars, pipeVars, valVars, convVars,
                   excVars, resVars, adVars>>

\* publish_article on the same brief, outline and edit, in a run with or
\* without dry_run
Republish ==
    /\ pubPc = "published"
    /\ \E dry_run \in BOOLEAN : PublishCall(dry_run, "republished")
    /\ UNCHANGED <<pubBrief, pubOutline, pubEdit,
                   fixVars, edVars, llmVars, pipeVars, valVars, convVars,
                   excVars, resVars, adVars>>

NextPub == PublishArticle \/ Republish

SpecPub == InitPub /\ [][NextPub]_vars

----------------------------------------------------------------------------
(* Claims about the publisher *)

\* the id prefix the claim gives each content type
C19_Prefixes ==
    {<<"r", "e", "v", "i", "e", "w", "-">>,
     <<"u", "s", "e", "c", "a", "s", "e", "-">>,
     <<"c", "o", "m", "p", "a", "r", "i", "s", "o", "n", "-">>,
     <<"f", "a", "q", "-">>}

\* C19: the _id of every document built is one of the prefixes review-,
\* usecase-, comparison-, faq- followed by the outline slug (the prefix is
\* that of the content type: review, best-for, comparison, faq), with
\* "drafts." in front if and only if the score is below PUBLISH_THRESHOLD;
\* the returned decision is "draft" exactly when the returned id starts with
\* "drafts."; and publishing the same slug, type and score again gives the
\* same id.
C19_DocIdFromTypeSlugScore ==
    LET score == pubEdit.confidence_score
        ct == pubBrief.content_type
        named == [review |-> <<"r", "e", "v", "i", "e", "w", "-">>,
                  bestfor |-> <<"u", "s", "e", "c", "a", "s", "e", "-">>,
                  comparison |-> <<"c", "o", "m", "p", "a", "r", "i", "s", "o", "n", "-">>,
                  faq |-> <<"f", "a", "q", "-">>]
    IN  /\ \A k \in DOMAIN pubDoc :
              /\ \E p \in C19_Prefixes :
                    pubDoc[k]._id = IF score < PUBLISH_THRESHOLD
                                    THEN DraftsPrefix \o p \o pubOutline.slug
                                    ELSE p \o pubOutline.slug
              /\ ct = "review" => IsPrefix(named.review, pubDoc[k]._id)
                                  \/ IsPrefix(DraftsPrefix \o named.review, pubDoc[k]._id)
              /\ ct = "best-for" => IsPrefix(named.bestfor, pubDoc[k]._id)
                                    \/ IsPrefix(DraftsPrefix \o named.bestfor, pubDoc[k]._id)
              /\ ct = "comparison" => IsPrefix(named.comparison, pubDoc[k]._id)
                                      \/ IsPrefix(DraftsPrefix \o named.comparison, pubDoc[k]._id)
              /\ ct = "faq" => IsPrefix(named.faq, pubDoc[k]._id)
                               \/ IsPrefix(DraftsPrefix \o named.faq, pubDoc[k]._id)
              /\ IsPrefix(DraftsPrefix, pubDoc[k]._id) <=> score < PUBLISH_THRESHOLD
        /\ \A k \in DOMAIN pubResult :
              /\ pubResult[k].id = pubDoc[k]._id
              /\ pubResult[k].decision = "draft" <=> IsPrefix(DraftsPrefix, pubResult[k].id)
              /\ pubResult[k].decision \in {"draft", "publish"}
        /\ \A j, k \in DOMAIN pubDoc : pubDoc[j]._id = pubDoc[k]._id

\* the same article published twice, once in a dry run and once not, below
\* the threshold, its slug beginning like a draft id
C19_Witness ==
    /\ pubPc = "republished" /\ Len(pubDoc) = 2
    /\ pubEdit.confidence_score < PUBLISH_THRESHOLD
    /\ IsPrefix(DraftsPrefix, pubOutline.slug)
    /\ pubResult[1].decision = "draft" /\ pubResult[2].decision = "draft"
    /\ \E k \in DOMAIN pubStore : pubStore[k].call = "mutate"

----------------------------------------------------------------------------
(* Claims about dry runs *)

\* the try block of item i ran to its end: publish_article returned and the
\* result was logged without an error
Completed(i) ==
    /\ stored[i] # "none" /\ raised[i] = "none"
    /\ item > i \/ pc \in {"summary", "returned", "exited"}

\* C20: in a run with dry_run, mutate and upload_image are never called,
\* whatever the stages' outcomes; an LLM stage that was followed by the next
\* stage has made its call, so an item that completed has the calls of the
\* research, outline, writer and editor stages behind it; an item whose
\* publish_article returned has a result with success true, and an item
\* that completed has that result only.
C20_DryRunSendsNothing ==
    dryRun =>
        /\ mutations = 0 /\ uploads = 0
        /\ \A i \in Items :
              /\ \A k \in 1..(Len(ran[i]) - 1) :
                    ran[i][k] \in {"outline", "writer", "editor"}
                    => <<ran[i][k], i>> \in llmCalls
              /\ stored[i] # "none" =>
                    /\ stored[i] = "dry"
                    /\ \E k \in ResultsOf(i) : results[k].success
              /\ Completed(i) =>
                    /\ {<<"research", 0>>, <<"outline", i>>, <<"writer", i>>,
                        <<"editor", i>>} \subseteq llmCalls
                    /\ Cardinality(ResultsOf(i)) = 1
                    /\ \A k \in ResultsOf(i) : results[k].success

\* a dry run that has ended, in which one item completed and another failed
\* in the publisher
C20_Witness ==
    /\ dryRun /\ pc = "exited"
    /\ \E i, j \in Items :
          /\ Completed(i)
          /\ raised[j] = "publisher"

----------------------------------------------------------------------------
(* Further claims about the validator *)

\* C21: run never assigns to its input article; with no fix applied the
\* article returned is the article given, stated word_count included; with a
\* fix applied it is a new article whose markdown is the fixed text, which
\* differs from the input's, whose word_count is the number of
\* whitespace-separated words of the fixed text, and whose tokens_used is
\* the input's.
C21_ReturnedArticle ==
    Validated =>
        IF report.fixes_applied = <<>>
        THEN fixedArticle = article
        ELSE /\ fixedArticle.markdown = AutoFix(article.markdown).fixed
             /\ fixedArticle.markdown # article.markdown
             /\ fixedArticle.word_count = Len(Words(fixedArticle.markdown))
             /\ fixedArticle.tokens_used = article.tokens_used

C21_ArticleReplacedNotMutated ==
    []C21_ReturnedArticle /\ [][article' = article]_vars

\* a run that applied a fix to an article whose stated word count differs
\* from the count of the fixed text
C21_Witness ==
    /\ valPc = "validated"
    /\ report.fixes_applied # <<>>
    /\ fixedArticle.word_count # article.word_count
    /\ fixedArticle.word_count > 0

----------------------------------------------------------------------------
(* publisher._extract_excerpt *)

\* the default of the max_len parameter; every caller uses the default
max_len == 300

\* the least index a cut at a sentence end or at a space must exceed
MinCut == 80

Digits == {"0", "1", "2", "3", "4", "5", "6", "7", "8", "9"}

\* str.splitlines() of a text whose only line boundary is "\n": as
\* split("\n"), without the empty string after a final newline
RECURSIVE SplitLinesFrom(_, _)
SplitLinesFrom(s, i) ==
    LET line(ends) ==
            IF ends = {} THEN <<SubSeq(s, i, Len(s))>>
            ELSE LET e == CHOOSE x \in ends : \A y \in ends : x <= y
                 IN  <<SubSeq(s, i, e - 1)>> \o SplitLinesFrom(s, e + 1)
    IN  IF i > Len(s) THEN <<>> ELSE line({e \in i..Len(s) : s[e] = NL})

SplitLines(s) == SplitLinesFrom(s, 1)

StartsWith(s, a) == StartsAt(s, 1, a)

\* the lines the paragraph loop skips: empty, heading, table, rule, bullet,
\* numbered item (re.match(r'^\d+\.', line))
SkippedLine(line) ==
    \/ line = <<>>
    \/ StartsWith(line, <<"#">>) \/ StartsWith(line, <<"|">>)
    \/ StartsWith(line, <<"-", "-", "-">>)
    \/ StartsWith(line, <<"-">>) \/ StartsWith(line, <<"*">>)
    \/ LET d == RunOf(line, 1, Digits)
       IN  d >= 1 /\ d + 1 <= Len(line) /\ line[d + 1] = "."

\* the loop over markdown.splitlines() from line i on, with the paragraph
\* collected so far
RECURSIVE ParagraphFrom(_, _, _)
ParagraphFrom(ls, i, paragraph) ==
    LET step(line) ==
            IF SkippedLine(line)
            THEN IF paragraph # <<>> THEN paragraph
                 ELSE ParagraphFrom(ls, i + 1, paragraph)
            ELSE ParagraphFrom(ls, i + 1,
                     IF paragraph # <<>> THEN paragraph \o <<" ">> \o line ELSE line)
    IN  IF i > Len(ls) THEN paragraph ELSE step(Strip(ls[i]))

\* _strip_markdown_links from position i on:
\* re.sub(r'\[([^\]]+)\]\([^)]+\)', r'\1', text)
RECURSIVE StripLinksFrom(_, _)
StripLinksFrom(s, i) ==
    LET sub(starts) ==
            IF starts = {} THEN SubSeq(s, i, Len(s))
            ELSE LET a == CHOOSE x \in starts : \A y \in starts : x <= y
                     replace(m) ==
                         SubSeq(s, i, a - 1) \o m.text \o StripLinksFrom(s, m.end)
                 IN  replace(LinkMatch(s, a))
    IN  sub({a \in i..Len(s) : s[a] = "[" /\ LinkMatch(s, a).ok})

StripMarkdownLinks(text) == StripLinksFrom(text, 1)

\* str.rfind(a): the greatest 0-based index where a occurs, -1 if none
RFind(s, a) ==
    LET at == {k \in 1..Len(s) : StartsAt(s, k, a)}
    IN  IF at = {} THEN -1 ELSE (CHOOSE x \in at : \A y \in at : y <= x) - 1

Max3(a, b, c) ==
    IF a >= b /\ a >= c THEN a ELSE IF b >= c THEN b ELSE c

Ellipsis == <<".", ".", ".">>

\* the truncation of a clean paragraph longer than max_len
TruncateExcerpt(truncated) ==
    LET cut(last_period, last_space) ==
            IF last_period > MinCut
            THEN Strip(SubSeq(truncated, 1, last_period + 1))
            ELSE IF last_space > MinCut
            THEN Strip(SubSeq(truncated, 1, last_space)) \o Ellipsis
            ELSE Strip(truncated) \o Ellipsis
    IN  cut(Max3(RFind(truncated, <<".", " ">>), RFind(truncated, <<"?", " ">>),
                 RFind(truncated, <<"!", " ">>)),
            RFind(truncated, <<" ">>))

\* _extract_excerpt(markdown) with the default max_len
ExtractExcerpt(md) ==
    LET formatting(c) == c \notin {"*", "_", "#", ">"}
        finish(clean) ==
            IF Len(clean) <= max_len THEN clean
            ELSE TruncateExcerpt(SubSeq(clean, 1, max_len))
        extract(paragraph) ==
            IF paragraph = <<>> THEN <<>>
            ELSE finish(Strip(SelectSeq(StripMarkdownLinks(paragraph), formatting)))
    IN  extract(ParagraphFrom(SplitLines(md), 1, <<>>))

\* n copies of the character c
Rep(c, n) == [k \in 1..n |-> c]

\* a paragraph of n characters 'a' in which the text brk replaces the
\* characters from 0-based index p on; p = -1: no break
ParagraphWith(n, p, brk) ==
    IF p < 0 \/ p + Len(brk) > n THEN Rep("a", n)
    ELSE Rep("a", p) \o brk \o Rep("a", n - p - Len(brk))

\* final_markdown values: a paragraph whose length is within MaxOver of
\* max_len, with no break, or with a space or a sentence end at an index
\* around MinCut or just before max_len, after nothing, a heading, a list
\* item or a link, and before nothing or one more paragraph
ExcInputs ==
    LET lengths == (max_len - MaxOver)..(max_len + MaxOver)
        cuts == {-1} \cup ((MinCut - 1)..(MinCut + 1))
                     \cup ((max_len - MaxOver)..(max_len - 1))
        breaks == {<<" ">>, <<".", " ">>, <<"?", " ">>, <<"!", " ">>}
        before == {<<>>, <<"#", " ", "a", NL, NL>>, <<"-", " ", "a", NL>>,
                   <<"1", ".", " ", "a", NL>>, <<"a", NL>>,
                   <<"[", "a", "]", "(", "u", ")", " ">>, <<"*", "*", "a", "*", "*", " ">>}
        after == {<<>>, <<NL, NL, "a">>}
        long == {ParagraphWith(n, p, b) : n \in lengths, p \in cuts, b \in breaks}
        short == {<<>>, <<"a">>, <<"#", " ", "a">>, <<"|", "a", "|">>,
                  <<"a", ".", " ", "a">>, <<"a", NL, "a">>, <<" ", "a", " ">>}
    IN  {b \o ParagraphWith(n, -1, <<>>) \o a :
            b \in before, n \in lengths, a \in after}
        \cup long
        \cup {b \o a : b \in before \cup short, a \in after}

InitExc ==
    /\ final_markdown \in ExcInputs
    /\ excPc = "called"
    /\ excerpt = <<>>
    /\ IdleFix /\ IdleEd /\ IdleLlm /\ IdlePipe /\ IdleVal /\ IdleConv /\ IdlePub
    /\ IdleRes /\ IdleAd

\* "excerpt": _extract_excerpt(edit["final_markdown"]) of a document builder
Excerpt ==
    /\ excPc = "called"
    /\ excerpt' = ExtractExcerpt(final_markdown)
    /\ excPc' = "returned"
    /\ UNCHANGED <<final_markdown, fixVars, edVars, llmVars, pipeVars, valVars,
                   convVars, pubVars, resVars, adVars>>

NextExc == Excerpt

SpecExc == InitExc /\ [][NextExc]_vars

----------------------------------------------------------------------------
(* Claims about the excerpt *)

\* C22: the excerpt of every final_markdown is at most 300 characters long,
\* a first paragraph longer than 300 characters with no sentence end or no
\* space in its first 300 characters included.
C22_ExcerptAtMost300 ==
    excPc = "returned" => Len(excerpt) <= 300

----------------------------------------------------------------------------
(* Further claims about the editor *)

\* C23: every EditResult has a confidence_score within 0..100 and every axis
\* of its score_breakdown within 0..20, whatever numbers the model returned.
C23_ScoresWithinRange ==
    edPc = "returned" =>
        /\ edit.confidence_score \in 0..100
        /\ \A k \in DOMAIN edit.score_breakdown : edit.score_breakdown[k] \in 0..20

----------------------------------------------------------------------------
(* research_agent.run: the briefs built from the model's reply *)

\* product names of the catalog and names the model may list: "A" is in both,
\* "a" differs from it by case only, "Z" is in no catalog
CatalogNames == {<<"A">>, <<"a">>, <<"B">>}
ListedNames == {<<"A">>, <<"a">>, <<"Z">>}

\* the sequences of at most n elements of S
ListsUpTo(S, n) == UNION {[1..k -> S] : k \in 0..n}

\* catalogs: affiliate_manager.add_product refuses a product whose name is
\* already there, so the names of a catalog are distinct; the asin tells
\* the products apart
Catalogs ==
    {[k \in DOMAIN ns |-> [product_name |-> ns[k], asin |-> k]] :
        ns \in {x \in ListsUpTo(CatalogNames, Cardinality(CatalogNames)) :
                   \A i, j \in DOMAIN x : i # j => x[i] # x[j]}}

\* objects of the "briefs" array: the relevant_products key may be absent,
\* and so may the topic key
RawBriefs ==
    LET relevant == {EmptyDict}
                    \cup {[relevant_products |-> x] : x \in ListsUpTo(ListedNames, MaxListed)}
        whole == {[topic |-> "t"] @@ r : r \in relevant}
    IN  ListsUpTo(whole, MaxRaw) \cup {<<r>> : r \in relevant}

\* a lookup that ignores the case of the listed name
RelevantIgnoringCase(products_, names) ==
    LET found(name) == {j \in DOMAIN products_ :
                           LowerStr(products_[j].product_name) = LowerStr(name)}
        hit(name) == found(name) # {}
        kept == SelectSeq(names, hit)
    IN  [k \in DOMAIN kept |->
            products_[CHOOSE j \in found(kept[k]) : \A i \in found(kept[k]) : i <= j]]

\* [product_lookup[name] for name in names if name in product_lookup], with
\* product_lookup = {p["product_name"]: p for p in products}: a later
\* product replaces an earlier one of the same name
Relevant(products_, names) ==
    LET found(name) == {j \in DOMAIN products_ : products_[j].product_name = name}
        hit(name) == found(name) # {}
        kept == SelectSeq(names, hit)
    IN  [k \in DOMAIN kept |->
            products_[CHOOSE j \in found(kept[k]) : \A i \in found(kept[k]) : i <= j]]

\* the loop over raw_briefs: rb["topic"] raises KeyError when the key is
\* absent, and run then returns no briefs
ResearchRaises(raw) == \E i \in DOMAIN raw : "topic" \notin DOMAIN raw[i]

EnrichBriefs(products_, raw) ==
    [i \in DOMAIN raw |->
        [topic |-> raw[i].topic,
         relevant_products |->
             Relevant(products_, Get(raw[i], "relevant_products", <<>>))]]

InitRes ==
    /\ products \in Catalogs
    /\ raw_briefs \in RawBriefs
    /\ resPc = "replied"
    /\ resBriefs = <<>>
    /\ IdleFix /\ IdleEd /\ IdleLlm /\ IdlePipe /\ IdleVal /\ IdleConv /\ IdlePub
    /\ IdleExc /\ IdleAd

\* run after call_llm returned: enrich each brief and return the list
EnrichAndReturn ==
    /\ resPc = "replied"
    /\ IF ResearchRaises(raw_briefs)
       THEN resPc' = "raised" /\ UNCHANGED resBriefs
       ELSE resPc' = "returned" /\ resBriefs' = EnrichBriefs(products, raw_briefs)
    /\ UNCHANGED <<products, raw_briefs, fixVars, edVars, llmVars, pipeVars,
                   valVars, convVars, pubVars, excVars, adVars>>

NextRes == EnrichAndReturn

SpecRes == InitRes /\ [][NextRes]_vars

----------------------------------------------------------------------------
(* Claims about the research stage *)

----------------------------------------------------------------------------
(* Further claims about call_llm *)

\* C25: the k-th wait of a call is 2^k seconds (2, then 4, doubling) and
\* follows the k-th failed attempt; there is no wait after a successful
\* attempt nor after the last failed one, so a call makes one wait for each
\* failed attempt that another attempt follows, and a call whose attempts
\* all failed has made exactly max_retries waits when it raises.
C25_BackoffDoubles ==
    LET failed == Cardinality({k \in DOMAIN calls : calls[k].outcome # "ok"})
    IN  /\ \A k \in DOMAIN sleeps : sleeps[k] = 2 ^ k /\ calls[k].outcome # "ok"
        /\ llmPc = "attempt" => Len(sleeps) = Len(calls) /\ Len(sleeps) = attempt - 1
        /\ llmPc = "returned" => Len(sleeps) = Len(calls) - 1 /\ Len(sleeps) = failed
        /\ (llmPc = "raised" /\ calls # <<>>) =>
              /\ failed = maxRetries + 1
              /\ Len(sleeps) = maxRetries

\* a call with max_retries = 2 whose three attempts failed: it waited 2 s and
\* 4 s and then raised
C25_Witness ==
    /\ llmPc = "raised" /\ maxRetries = 2
    /\ Len(calls) = 3
    /\ sleeps = <<2, 4>>


\* C30: the provider call_llm dispatches to is openai, anthropic or google
\* for every model string; a parsed provider name outside these three is
\* replaced by the openai default (with the default model), the "Unknown LLM
\* provider" error is never raised, and every attempt of the call goes to
\* the provider and model that were resolved.
C30_ProviderAlwaysKnown ==
    LET parsed == ParseProviderModel(Requested).provider
        known == {<<"openai">>, <<"anthropic">>, <<"google">>}
    IN  /\ llmPc \in {"attempt", "returned", "raised"} =>
              /\ provider \in known
              /\ parsed \notin known =>
                    provider = <<"openai">> /\ modelName = OPENAI_MODEL
        /\ \A k \in DOMAIN raisedErr : raisedErr[k].kind # "unknown_provider"
        /\ \A k \in DOMAIN calls :
              calls[k].provider = provider /\ calls[k].model = modelName

\* a call for the model "m/m", whose provider name is none of the three:
\* it went to openai, twice
C30_Witness ==
    /\ modelStr = <<"m", "/", "m">>
    /\ Len(calls) >= 2
    /\ \A k \in DOMAIN calls : calls[k].provider = <<"openai">>

----------------------------------------------------------------------------
(* base_agent: the provider adapters in json_mode *)

\* the grave accent (U+0060), which a TLA+ string cannot hold
Backtick == "U+0060"

Fence == <<Backtick, Backtick, Backtick>>

\* _strip_code_fences(text)
StripCodeFences(text) ==
    LET closing(rest) ==
            IF EndsWith(RStrip(rest), Fence)
            THEN RStrip(SubSeq(RStrip(rest), 1, Len(RStrip(rest)) - 3))
            ELSE rest
        opening(stripped) ==
            IF StartsAt(stripped, 1, Fence)
            THEN closing(SubSeq(stripped, NextNewline(stripped, 1) + 1, Len(stripped)))
            ELSE stripped
    IN  opening(Strip(text))

\* json.loads(raw) on a text of the characters U+0060 j s o n { } 1, space and
\* newline: the documents are an object with nothing between its braces but
\* whitespace, and a number written with the digit 1, each with whitespace
\* around it; anything else raises JSONDecodeError. The value of the object
\* is written {} and the value of a number is its digits.
JsonLoads(raw) ==
    LET load(t) ==
            IF t # <<>> /\ \A k \in DOMAIN t : t[k] = "1"
            THEN [ok |-> TRUE, value |-> t]
            ELSE IF /\ Len(t) >= 2 /\ t[1] = "{" /\ t[Len(t)] = "}"
                    /\ \A k \in 2..(Len(t) - 1) : IsSpace(t[k])
            THEN [ok |-> TRUE, value |-> <<"{", "}">>]
            ELSE [ok |-> FALSE, value |-> <<>>]
    IN  load(Strip(raw))

\* the "content" of the dict an adapter returns, or the JSONDecodeError it
\* lets through: _call_openai parses the response text as it came,
\* _call_anthropic and _call_google strip the code fences first
AdapterContent(provider_, json_mode, raw) ==
    IF ~json_mode THEN [ok |-> TRUE, value |-> raw]
    ELSE IF provider_ = "openai" THEN JsonLoads(raw)
    ELSE JsonLoads(StripCodeFences(raw))

JsonLabel == <<"j", "s", "o", "n">>

\* a JSON text between a line of three grave accents and "json" and a line
\* of three grave accents
Fenced(body) == Fence \o JsonLabel \o <<NL>> \o body \o <<NL>> \o Fence

\* JSON documents a model may return
JsonBodies == {<<"{", "}">>, <<"{", " ", "}">>, <<"{", NL, "}">>, <<"1">>, <<"1", "1">>}

\* response texts: a JSON document or a broken one, bare or between an
\* opening fence (with or without the json label) and a closing fence,
\* either of which may be missing, with or without the newlines and with
\* whitespace around
Responses ==
    {lead \o open \o sep \o body \o sep2 \o close \o trail :
        lead \in {<<>>, <<NL>>},
        open \in {<<>>, Fence, Fence \o JsonLabel},
        sep \in {<<>>, <<NL>>},
        body \in JsonBodies \cup {<<"{">>, <<>>},
        sep2 \in {<<>>, <<NL>>},
        close \in {<<>>, Fence},
        trail \in {<<>>, <<" ">>}}

InitAd ==
    /\ adProvider \in Providers
    /\ adJsonMode \in BOOLEAN
    /\ adRaw \in Responses
    /\ adPc = "called"
    /\ adContent = <<>>
    /\ IdleFix /\ IdleEd /\ IdleLlm /\ IdlePipe /\ IdleVal /\ IdleConv /\ IdlePub
    /\ IdleExc /\ IdleRes

\* call_fn(...) of one attempt, after the provider answered with adRaw
AdapterCall ==
    /\ adPc = "called"
    /\ LET return(r) ==
               /\ adPc' = IF r.ok THEN "returned" ELSE "raised"
               /\ adContent' = r.value
       IN  return(AdapterContent(adProvider, adJsonMode, adRaw))
    /\ UNCHANGED <<adProvider, adJsonMode, adRaw, fixVars, edVars, llmVars,
                   pipeVars, valVars, convVars, pubVars, excVars, resVars>>

NextAd == AdapterCall

SpecAd == InitAd /\ [][NextAd]_vars

----------------------------------------------------------------------------
(* Claims about the adapters *)

\* C26: in json_mode the adapter of every provider (openai, anthropic,
\* google) returns the parsed object of a valid JSON text wrapped in a
\* json code fence: it does not raise, so the first attempt succeeds, and the
\* content is what the JSON text between the fences parses to.
C26_FencedJsonParsed ==
    \A body \in JsonBodies :
        (adPc \in {"returned", "raised"} /\ adJsonMode /\ adRaw = Fenced(body)) =>
            /\ adPc = "returned"
            /\ adContent = JsonLoads(body).value

\* the same for the adapters of anthropic and google only
C26_FencedJsonParsedElsewhere ==
    adProvider # "openai" => C26_FencedJsonParsed

----------------------------------------------------------------------------
(* Further claims about the validator's report *)

\* C27: when the report has pass = TRUE, validating the returned article
\* against the same outline reports no CRITICAL issue, and the returned
\* article's word_count is at least 70% of total_target_words.
C27_PassLeavesNoCritical ==
    (valPc = "revalidated" /\ report.pass) =>
        /\ \A k \in DOMAIN rereport.issues : ~IsCritical(rereport.issues[k])
        /\ 100 * fixedArticle.word_count >= 70 * outline.total_target_words

----------------------------------------------------------------------------
(* Further claims about the auto-fix pass *)

\* the lengths of the maximal runs of newlines of s from position i on
RECURSIVE NewlineRunsFrom(_, _)
NewlineRunsFrom(s, i) ==
    IF i > Len(s) THEN <<>>
    ELSE IF s[i] = NL
    THEN <<NewlineRun(s, i)>> \o NewlineRunsFrom(s, i + NewlineRun(s, i))
    ELSE NewlineRunsFrom(s, i + 1)

NewlineRuns(s) == NewlineRunsFrom(s, 1)

\* the maximal newline-free pieces of s from position i on
RECURSIVE SegmentsFrom(_, _)
SegmentsFrom(s, i) ==
    IF i > Len(s) THEN <<>>
    ELSE IF s[i] = NL THEN SegmentsFrom(s, i + 1)
    ELSE <<SubSeq(s, i, NextNewline(s, i) - 1)>> \o SegmentsFrom(s, NextNewline(s, i))

Segments(s) == SegmentsFrom(s, 1)

\* the runs of newlines between two pieces of text: all but a run the text
\* starts with and a run it ends with
InteriorRuns(s) ==
    {k \in DOMAIN NewlineRuns(s) :
        /\ ~(k = 1 /\ s[1] = NL)
        /\ ~(k = Len(NewlineRuns(s)) /\ s[Len(s)] = NL)}

HeadingRemoved(fs) ==
    \E k \in DOMAIN fs : fs[k][1] = "Removed trailing empty heading"

\* C28: after the auto-fix pass every run of 3 or more consecutive blank
\* lines of the input is a run of exactly 2 blank lines, and a run of fewer
\* than 3 blank lines is as it was. Between two pieces of text n + 1
\* newlines make n blank lines. Stated for the passes that removed no
\* trailing heading, and allowing the blank line the pass inserts before a
\* heading that directly follows a line of text.
C28_BlankRunsCollapsedToTwo ==
    (fixPc = "fixed" /\ ~HeadingRemoved(fixes)) =>
        LET in == NewlineRuns(markdown)
            out == NewlineRuns(fixed)
        IN  /\ Segments(fixed) = Segments(markdown)
            /\ Len(out) = Len(in)
            /\ \A k \in InteriorRuns(markdown) :
                  IF in[k] - 1 >= 3
                  THEN out[k] - 1 = 2
                  ELSE out[k] = in[k] \/ (in[k] = 1 /\ out[k] = 2)

----------------------------------------------------------------------------
(* Further claims about the orchestrator *)

\* C29: in the run summary published + drafted + failed is the number of
\* results, whatever the stages and the store mutation did.
C29_SummaryBucketsPartition ==
    summaryLine # <<>> =>
        summaryLine.published + summaryLine.drafted + summaryLine.failed
            = summaryLine.total

====
